---------------------------- MODULE Spec2Model ----------------------------
(***************************************************************************)
(* A model of the halo2-demo circuits (square-sum, optimized field chip,   *)
(* multi-chip composition, byte-lookup and binary range checks) and of the *)
(* arithmetization engine they run on: the single-pass region layouter,    *)
(* the witness grid, selectors, copy constraints, instance bindings, the   *)
(* lookup table, and the verifier that replays every constraint.           *)
(*                                                                         *)
(* The chips, their gates and their synthesis steps are translated from    *)
(* the Rust sources.  The engine is a dependency of the repository with no *)
(* source under src/; it is modelled from sections 4.2 and 4.5 of the      *)
(* specification.                                                          *)
(***************************************************************************)
EXTENDS Integers, Naturals, Sequences, FiniteSets, TLC

VARIABLES
    circuit,     \* which Circuit implementation is being run
    inA, inB,    \* the circuit struct's private inputs a, b      (Value<F>)
    inK,         \* the circuit struct's constant                  (F)
    inV,         \* the range circuits' value                      (u32)
    pc,          \* index of the next statement of synthesize
    grid,        \* witness grid: assigned (column,row) cell |-> field value
    selectors,   \* set of <<selector, row>> enabled
    copies,      \* copy constraints recorded by copy_advice: <<cell, cell>>
    binds,       \* instance bindings recorded by constrain_instance
    colNext,     \* layouter: column |-> first free row
    regions,     \* layouter: the regions laid out so far, in order
    table,       \* lookup table column: row |-> field value
    tableLoads,  \* how many times assign_table ran in this build
    handles,     \* the AssignedCell handles synthesize holds, by name
    tampered,    \* the cells overwritten after synthesis by a fault
    phase,       \* "configuring" | "synthesizing" | "synthesized" | "verified"
    instance,    \* public inputs given to the verifier
    failures,    \* the verifier's report: the set of failures found
    cs,          \* the constraint system Circuit::configure builds
    error        \* the error of the last refused constraint-system call

vars == <<circuit, inA, inB, inK, inV, pc, grid, selectors, copies, binds,
          colNext, regions, table, tableLoads, handles, tampered, phase,
          instance, failures, cs, error>>

---------------------------------------------------------------------------
(* Bounds and program constants *)

\* The arithmetic circuits are generic over F: Field; the model runs them
\* over the prime field whose modulus is the smallest prime above this.
MinArithField == 6

\* Rows of the grid the verifier walks (2^k in MockProver::run).
NumRows == 10

\* bytes: [Column<Advice>; 4]
NumLimbs == 4

\* The largest field value a fault writes into a cell; with the bounds as
\* written this is the whole field of the range circuits.
MaxTamperValue == 16

\* Width of one limb in bits.  The source uses 8-bit limbs of a u32 (masks
\* 0xFF, a 256-row table); the model scales the limb width down so that the
\* whole value range, and a prime field strictly larger than it, can be
\* enumerated.  Every 8, 0xFF, 256 and 32 of the source is derived from it.
LimbBits == 1

Pow2(n) == 2 ^ n

LimbRange == Pow2(LimbBits)            \* 256 in the source
NumBits == NumLimbs * LimbBits         \* 32 in the source
U32Range == Pow2(NumBits)              \* 2^32 in the source

Max(S) == CHOOSE x \in S : \A y \in S : y <= x

IsPrime(n) == n > 1 /\ \A d \in 2..(n - 1) : n % d # 0

SmallestPrimeAbove(n) ==
    CHOOSE p \in (n + 1)..(2 * n + 2) :
        IsPrime(p) /\ \A q \in (n + 1)..(p - 1) : ~IsPrime(q)

ArithModulus == SmallestPrimeAbove(MinArithField)
RangeModulus == SmallestPrimeAbove(U32Range)

ArithCircuits == {"SquareSum", "Optimized", "MultiChip"}
RangeCircuits == {"BitDecomposition", "BinaryRange"}
Circuits == ArithCircuits \cup RangeCircuits

---------------------------------------------------------------------------
(* The Field capability: a prime field *)

FieldModulus(c) == IF c \in ArithCircuits THEN ArithModulus ELSE RangeModulus

P == FieldModulus(circuit)
Field == 0..(P - 1)

FAdd(x, y) == (x + y) % P
FSub(x, y) == (x + P - y) % P
FMul(x, y) == (x * y) % P
FSquare(x) == FMul(x, x)
\* F::from(u64): the injection of machine integers
FFrom(n) == n % P

---------------------------------------------------------------------------
(* Columns and cells *)

Advice(i) == <<"advice", i>>
Fixed(i) == <<"fixed", i>>
Instance(i) == <<"instance", i>>
Selector(i) == <<"selector", i>>
TableColumn(i) == <<"table", i>>

Cell(col, row) == <<col, row>>


---------------------------------------------------------------------------
(* Region assignment layer (specification section 4.2).  A layout L is the *)
(* record of everything synthesis builds; `touched` collects the           *)
(* <<column, offset>> pairs the open region has used.                      *)

Layout ==
    [grid |-> grid, selectors |-> selectors, copies |-> copies,
     colNext |-> colNext, regions |-> regions, touched |-> {}]

Put(g, c, v) == [x \in DOMAIN g \cup {c} |-> IF x = c THEN v ELSE g[x]]

\* region.assign_advice(column, offset, value): returns the layout; the cell
\* assigned is Cell(column, start + offset)
AssignAdvice(L, start, col, offset, v) ==
    [L EXCEPT !.grid = Put(@, Cell(col, start + offset), v),
              !.touched = @ \cup {<<col, offset>>}]

\* region.assign_fixed(column, offset, value)
AssignFixed(L, start, col, offset, v) ==
    [L EXCEPT !.grid = Put(@, Cell(col, start + offset), v),
              !.touched = @ \cup {<<col, offset>>}]

\* source.copy_advice(region, column, offset): assigns the destination the
\* source's value and records the copy constraint
CopyAdvice(L, start, src, col, offset) ==
    LET L1 == AssignAdvice(L, start, col, offset, L.grid[src])
    IN  [L1 EXCEPT !.copies = @ \cup {<<src, Cell(col, start + offset)>>}]

\* selector.enable(region, offset)
Enable(L, start, sel, offset) ==
    [L EXCEPT !.selectors = @ \cup {<<sel, start + offset>>},
              !.touched = @ \cup {<<sel, offset>>}]

ColNext(cn, c) == IF c \in DOMAIN cn THEN cn[c] ELSE 0

\* The first row at which a region using columns `cols` is placed: the first
\* row free in every one of them.
RegionStart(cn, cols) == Max({ColNext(cn, c) : c \in cols} \cup {0})

\* The layouter's view of a region body before it runs: nothing touched yet
Fresh(L) == [L EXCEPT !.touched = {}]

\* The columns (selectors included) a region body touched
RegionColumns(pass) == {t[1] : t \in pass.layout.touched}

\* The row at which the region whose shape pass is `shapePass` is placed
RegionRow(L, shapePass) == RegionStart(L.colNext, RegionColumns(shapePass))

\* layouter.assign_region(name, body): the body runs once at offset 0 to
\* find the region's shape (columns used, row count): `shapePass`; the region
\* is placed at RegionRow, and the body runs again at that row: `realPass`.
AssignRegion(L, name, shapePass, realPass) ==
    LET shape == shapePass.layout.touched
        cols == RegionColumns(shapePass)
        rowCount == Max({t[2] : t \in shape}) + 1
        start == RegionRow(L, shapePass)
        cn == [c \in DOMAIN L.colNext \cup cols |->
                 IF c \in cols THEN start + rowCount ELSE L.colNext[c]]
    IN  [layout |-> [realPass.layout EXCEPT
                       !.colNext = cn,
                       !.regions = Append(@, [name |-> name, start |-> start,
                                              rows |-> rowCount, columns |-> cols,
                                              cells |-> {Cell(t[1], start + t[2]) :
                                                            t \in shape}]),
                       !.touched = {}],
         out |-> realPass.out]

\* meta.query_advice / query_fixed at a rotation: the cell's value, rows
\* wrapping around the grid; an unassigned cell reads as zero
Query(g, col, row) ==
    LET c == Cell(col, row % NumRows)
    IN  IF c \in DOMAIN g THEN g[c] ELSE 0

\* meta.query_selector
QuerySelector(S, sel, row) == IF <<sel, row>> \in S THEN 1 ELSE 0

Rows == 0..(NumRows - 1)

---------------------------------------------------------------------------
(* basic_chip.rs: SquareSumChip *)

SquareSumConfig ==
    [advice |-> [i \in 0..2 |-> Advice(i)],
     instance |-> Instance(0),
     s_square |-> Selector(0),
     s_add |-> Selector(1)]

\* create_gate("square"): s_square * (a * a - a_squared)
SquareSum_square_gate(s_square, a, a_squared) ==
    FMul(s_square, FSub(FMul(a, a), a_squared))

\* create_gate("add"): s_add * (a + b - c)
SquareSum_add_gate(s_add, a, b, c) ==
    FMul(s_add, FSub(FAdd(a, b), c))

SquareSumChip_load_private(L, value) ==
    LET config == SquareSumConfig
        Body(l, start) ==
            [layout |-> AssignAdvice(l, start, config.advice[0], 0, value),
             out |-> Cell(config.advice[0], start + 0)]
    IN  AssignRegion(L, "load private", Body(Fresh(L), 0),
                     Body(Fresh(L), RegionRow(L, Body(Fresh(L), 0))))

\* value.value().map(|v| v.square())
SquareSumChip_square_witness(v) == FSquare(v)

SquareSumChip_square(L, value) ==
    LET config == SquareSumConfig
        Body(l, start) ==
            LET l1 == Enable(l, start, config.s_square, 0)
                l2 == CopyAdvice(l1, start, value, config.advice[0], 0)
                value_squared == SquareSumChip_square_witness(l.grid[value])
            IN  [layout |-> AssignAdvice(l2, start, config.advice[1], 0, value_squared),
                 out |-> Cell(config.advice[1], start + 0)]
    IN  AssignRegion(L, "square", Body(Fresh(L), 0),
                     Body(Fresh(L), RegionRow(L, Body(Fresh(L), 0))))

\* Fault variant of SquareSumChip_add_witness: the sum drops its second
\* operand
SquareSumChip_add_witness_dropB(a, b) == a

\* a.value().zip(b.value()).map(|(a, b)| *a + *b)
SquareSumChip_add_witness(a, b) == FAdd(a, b)

\* Fault variant of SquareSumChip_add: the first operand is assigned, not
\* copied, so no copy constraint links it to its source
SquareSumChip_add_unlinked(L, a, b) ==
    LET config == SquareSumConfig
        Body(l, start) ==
            LET l1 == Enable(l, start, config.s_add, 0)
                l2 == AssignAdvice(l1, start, config.advice[0], 0, l.grid[a])
                l3 == CopyAdvice(l2, start, b, config.advice[1], 0)
                sum == SquareSumChip_add_witness(l.grid[a], l.grid[b])
            IN  [layout |-> AssignAdvice(l3, start, config.advice[2], 0, sum),
                 out |-> Cell(config.advice[2], start + 0)]
    IN  AssignRegion(L, "add", Body(Fresh(L), 0),
                     Body(Fresh(L), RegionRow(L, Body(Fresh(L), 0))))

SquareSumChip_add(L, a, b) ==
    LET config == SquareSumConfig
        Body(l, start) ==
            LET l1 == Enable(l, start, config.s_add, 0)
                l2 == CopyAdvice(l1, start, a, config.advice[0], 0)
                l3 == CopyAdvice(l2, start, b, config.advice[1], 0)
                sum == SquareSumChip_add_witness(l.grid[a], l.grid[b])
            IN  [layout |-> AssignAdvice(l3, start, config.advice[2], 0, sum),
                 out |-> Cell(config.advice[2], start + 0)]
    IN  AssignRegion(L, "add", Body(Fresh(L), 0),
                     Body(Fresh(L), RegionRow(L, Body(Fresh(L), 0))))

\* Fault variant of SquareSumChip_expose_public: the cell is bound to the
\* instance row after the one asked for
SquareSumChip_expose_public_next_row(cell, row) ==
    <<cell, Cell(SquareSumConfig.instance, row + 1)>>

\* layouter.constrain_instance(cell, instance column, row): the binding
\* recorded for the verifier
SquareSumChip_expose_public(cell, row) ==
    <<cell, Cell(SquareSumConfig.instance, row)>>

---------------------------------------------------------------------------
(* basic_middle.rs: OptimizedFieldChip *)

OptimizedFieldConfig ==
    [advice |-> [i \in 0..2 |-> Advice(i)],
     instance |-> Instance(0),
     constant |-> Fixed(0),
     s_add |-> Selector(0),
     s_mul |-> Selector(1),
     s_sq |-> Selector(2)]

\* Fault variant of Optimized_add_gate: the polynomial is not multiplied by
\* the selector
Optimized_add_gate_unguarded(s_add, a0, a1, a2, sum) ==
    FSub(FAdd(FAdd(a0, a1), a2), sum)

\* create_gate("add_gate"): s_add * (a0 + a1 + a2 - sum), sum on the next row
Optimized_add_gate(s_add, a0, a1, a2, sum) ==
    FMul(s_add, FSub(FAdd(FAdd(a0, a1), a2), sum))

\* Fault variant of Optimized_mul_gate: the gate leaves the constant out
Optimized_mul_gate_no_const(s_mul, a0, a1, a2, const_val) ==
    FMul(s_mul, FSub(FMul(a0, a1), a2))

\* create_gate("mul_gate"): s_mul * (a0 * a1 * const_val - a2)
Optimized_mul_gate(s_mul, a0, a1, a2, const_val) ==
    FMul(s_mul, FSub(FMul(FMul(a0, a1), const_val), a2))

\* create_gate("square_gate"): s_sq * (a0 * a0 - a0_sq), a0_sq on the next row
Optimized_square_gate(s_sq, a0, a0_sq) ==
    FMul(s_sq, FSub(FMul(a0, a0), a0_sq))

OptimizedFieldChip_load_private(L, value) ==
    LET config == OptimizedFieldConfig
        Body(l, start) ==
            [layout |-> AssignAdvice(l, start, config.advice[0], 0, value),
             out |-> Cell(config.advice[0], start + 0)]
    IN  AssignRegion(L, "load private", Body(Fresh(L), 0),
                     Body(Fresh(L), RegionRow(L, Body(Fresh(L), 0))))

\* a.0.value().map(|v| v.square())
OptimizedFieldChip_square_witness(v) == FSquare(v)

\* Fault variant of OptimizedFieldChip_square_region: s_sq is not enabled
OptimizedFieldChip_square_region_no_selector(L, a, value_sq) ==
    LET config == OptimizedFieldConfig
        Body(l, start) ==
            LET l2 == CopyAdvice(l, start, a, config.advice[0], 0)
            IN  [layout |-> AssignAdvice(l2, start, config.advice[0], 1, value_sq),
                 out |-> Cell(config.advice[0], start + 1)]
    IN  AssignRegion(L, "square", Body(Fresh(L), 0),
                     Body(Fresh(L), RegionRow(L, Body(Fresh(L), 0))))

\* Fault variant of OptimizedFieldChip_square_region: the result is assigned
\* beside the operand, in advice[1] of the same row
OptimizedFieldChip_square_region_result_beside(L, a, value_sq) ==
    LET config == OptimizedFieldConfig
        Body(l, start) ==
            LET l1 == Enable(l, start, config.s_sq, 0)
                l2 == CopyAdvice(l1, start, a, config.advice[0], 0)
            IN  [layout |-> AssignAdvice(l2, start, config.advice[1], 0, value_sq),
                 out |-> Cell(config.advice[1], start + 0)]
    IN  AssignRegion(L, "square", Body(Fresh(L), 0),
                     Body(Fresh(L), RegionRow(L, Body(Fresh(L), 0))))

\* The "square" region, given the value its witness closure yields
OptimizedFieldChip_square_region(L, a, value_sq) ==
    LET config == OptimizedFieldConfig
        Body(l, start) ==
            LET l1 == Enable(l, start, config.s_sq, 0)
                l2 == CopyAdvice(l1, start, a, config.advice[0], 0)
            IN  [layout |-> AssignAdvice(l2, start, config.advice[0], 1, value_sq),
                 out |-> Cell(config.advice[0], start + 1)]
    IN  AssignRegion(L, "square", Body(Fresh(L), 0),
                     Body(Fresh(L), RegionRow(L, Body(Fresh(L), 0))))

OptimizedFieldChip_square(L, a) ==
    OptimizedFieldChip_square_region(
        L, a, OptimizedFieldChip_square_witness(L.grid[a]))

\* .map(|(a_val, b_val)| *a_val * *b_val * constant)
OptimizedFieldChip_mul_witness(a_val, b_val, constant) ==
    FMul(FMul(a_val, b_val), constant)

\* Fault variant of OptimizedFieldChip_mul_with_constant_region: the region
\* enables s_sq beside s_mul on its row
OptimizedFieldChip_mul_with_constant_region_two_selectors(L, a, b, constant, result) ==
    LET config == OptimizedFieldConfig
        Body(l, start) ==
            LET l0 == Enable(l, start, config.s_mul, 0)
                l1 == Enable(l0, start, config.s_sq, 0)
                l2 == AssignFixed(l1, start, config.constant, 0, constant)
                l3 == CopyAdvice(l2, start, a, config.advice[0], 0)
                l4 == CopyAdvice(l3, start, b, config.advice[1], 0)
            IN  [layout |-> AssignAdvice(l4, start, config.advice[2], 0, result),
                 out |-> Cell(config.advice[2], start + 0)]
    IN  AssignRegion(L, "mul with constant", Body(Fresh(L), 0),
                     Body(Fresh(L), RegionRow(L, Body(Fresh(L), 0))))

\* The "mul with constant" region, given the value its witness closure
\* yields
OptimizedFieldChip_mul_with_constant_region(L, a, b, constant, result) ==
    LET config == OptimizedFieldConfig
        Body(l, start) ==
            LET l1 == Enable(l, start, config.s_mul, 0)
                l2 == AssignFixed(l1, start, config.constant, 0, constant)
                l3 == CopyAdvice(l2, start, a, config.advice[0], 0)
                l4 == CopyAdvice(l3, start, b, config.advice[1], 0)
            IN  [layout |-> AssignAdvice(l4, start, config.advice[2], 0, result),
                 out |-> Cell(config.advice[2], start + 0)]
    IN  AssignRegion(L, "mul with constant", Body(Fresh(L), 0),
                     Body(Fresh(L), RegionRow(L, Body(Fresh(L), 0))))

OptimizedFieldChip_mul_with_constant(L, a, b, constant) ==
    OptimizedFieldChip_mul_with_constant_region(
        L, a, b, constant,
        OptimizedFieldChip_mul_witness(L.grid[a], L.grid[b], constant))

\* .map(|((a_val, b_val), c_val)| *a_val + *b_val + *c_val)
OptimizedFieldChip_add_three_witness(a_val, b_val, c_val) ==
    FAdd(FAdd(a_val, b_val), c_val)

\* Fault variant of OptimizedFieldChip_add_three: the sum is assigned at
\* offset 0, over the copy of the first operand
OptimizedFieldChip_add_three_sum_at_offset0(L, a, b, c) ==
    LET config == OptimizedFieldConfig
        Body(l, start) ==
            LET l1 == Enable(l, start, config.s_add, 0)
                l2 == CopyAdvice(l1, start, a, config.advice[0], 0)
                l3 == CopyAdvice(l2, start, b, config.advice[1], 0)
                l4 == CopyAdvice(l3, start, c, config.advice[2], 0)
                sum == OptimizedFieldChip_add_three_witness(
                           l.grid[a], l.grid[b], l.grid[c])
            IN  [layout |-> AssignAdvice(l4, start, config.advice[0], 0, sum),
                 out |-> Cell(config.advice[0], start + 0)]
    IN  AssignRegion(L, "add three", Body(Fresh(L), 0),
                     Body(Fresh(L), RegionRow(L, Body(Fresh(L), 0))))

\* The "add three" region, given the value its witness closure yields
OptimizedFieldChip_add_three_region(L, a, b, c, sum) ==
    LET config == OptimizedFieldConfig
        Body(l, start) ==
            LET l1 == Enable(l, start, config.s_add, 0)
                l2 == CopyAdvice(l1, start, a, config.advice[0], 0)
                l3 == CopyAdvice(l2, start, b, config.advice[1], 0)
                l4 == CopyAdvice(l3, start, c, config.advice[2], 0)
            IN  [layout |-> AssignAdvice(l4, start, config.advice[0], 1, sum),
                 out |-> Cell(config.advice[0], start + 1)]
    IN  AssignRegion(L, "add three", Body(Fresh(L), 0),
                     Body(Fresh(L), RegionRow(L, Body(Fresh(L), 0))))

OptimizedFieldChip_add_three(L, a, b, c) ==
    OptimizedFieldChip_add_three_region(
        L, a, b, c,
        OptimizedFieldChip_add_three_witness(L.grid[a], L.grid[b], L.grid[c]))

OptimizedFieldChip_expose_public(num, row) ==
    <<num, Cell(OptimizedFieldConfig.instance, row)>>

---------------------------------------------------------------------------
(* multi_chip_design.rs: SquareChip, AddChip, MulChip *)

\* MultiChipCircuit::configure: the instance column, then two advice columns
\* for the square chip, four for the add chip, three and a fixed column for
\* the mul chip; each chip's configure allocates its selector.
MultiChipConfig ==
    [instance |-> Instance(0),
     square_config |-> [advice |-> [i \in 0..1 |-> Advice(i)],
                        s_square |-> Selector(0)],
     add_config |-> [advice |-> [i \in 0..3 |-> Advice(2 + i)],
                     s_add |-> Selector(1)],
     mul_config |-> [advice |-> [i \in 0..2 |-> Advice(6 + i)],
                     constant |-> Fixed(0),
                     s_mul |-> Selector(2)]]

\* create_gate("square_gate"): s_square * (input * input - output)
SquareChip_square_gate(s_square, input, output) ==
    FMul(s_square, FSub(FMul(input, input), output))

\* create_gate("add_three_gate"): s_add * (a + b + c - sum)
AddChip_add_three_gate(s_add, a, b, c, sum) ==
    FMul(s_add, FSub(FAdd(FAdd(a, b), c), sum))

\* create_gate("mul_with_constant_gate"): s_mul * (a * b * constant - product)
MulChip_mul_with_constant_gate(s_mul, a, b, product, constant) ==
    FMul(s_mul, FSub(FMul(FMul(a, b), constant), product))

\* input.value().map(|v| v.square())
SquareChip_square_witness(v) == FSquare(v)

SquareChip_square(L, input) ==
    LET config == MultiChipConfig.square_config
        Body(l, start) ==
            LET l1 == Enable(l, start, config.s_square, 0)
                l2 == CopyAdvice(l1, start, input, config.advice[0], 0)
                output_value == SquareChip_square_witness(l.grid[input])
            IN  [layout |-> AssignAdvice(l2, start, config.advice[1], 0, output_value),
                 out |-> Cell(config.advice[1], start + 0)]
    IN  AssignRegion(L, "square operation", Body(Fresh(L), 0),
                     Body(Fresh(L), RegionRow(L, Body(Fresh(L), 0))))

\* Fault variant of AddChip_add_three_witness: the sum drops its third
\* operand
AddChip_add_three_witness_dropC(a_val, b_val, c_val) == FAdd(a_val, b_val)

\* .map(|((a_val, b_val), c_val)| *a_val + *b_val + *c_val)
AddChip_add_three_witness(a_val, b_val, c_val) ==
    FAdd(FAdd(a_val, b_val), c_val)

AddChip_add_three(L, a, b, c) ==
    LET config == MultiChipConfig.add_config
        Body(l, start) ==
            LET l1 == Enable(l, start, config.s_add, 0)
                l2 == CopyAdvice(l1, start, a, config.advice[0], 0)
                l3 == CopyAdvice(l2, start, b, config.advice[1], 0)
                l4 == CopyAdvice(l3, start, c, config.advice[2], 0)
                sum_value == AddChip_add_three_witness(l.grid[a], l.grid[b], l.grid[c])
            IN  [layout |-> AssignAdvice(l4, start, config.advice[3], 0, sum_value),
                 out |-> Cell(config.advice[3], start + 0)]
    IN  AssignRegion(L, "add three numbers", Body(Fresh(L), 0),
                     Body(Fresh(L), RegionRow(L, Body(Fresh(L), 0))))

\* .map(|(a_val, b_val)| *a_val * *b_val * constant)
MulChip_mul_witness(a_val, b_val, constant) ==
    FMul(FMul(a_val, b_val), constant)

MulChip_mul_with_constant(L, a, b, constant) ==
    LET config == MultiChipConfig.mul_config
        Body(l, start) ==
            LET l1 == Enable(l, start, config.s_mul, 0)
                l2 == AssignFixed(l1, start, config.constant, 0, constant)
                l3 == CopyAdvice(l2, start, a, config.advice[0], 0)
                l4 == CopyAdvice(l3, start, b, config.advice[1], 0)
                product_value == MulChip_mul_witness(l.grid[a], l.grid[b], constant)
            IN  [layout |-> AssignAdvice(l4, start, config.advice[2], 0, product_value),
                 out |-> Cell(config.advice[2], start + 0)]
    IN  AssignRegion(L, "multiply with constant", Body(Fresh(L), 0),
                     Body(Fresh(L), RegionRow(L, Body(Fresh(L), 0))))

\* Fault variant of MultiChip_load_input: the input is loaded into the mul
\* chip's first advice column
MultiChip_load_input_mul_column(L, name, value) ==
    LET temp_advice == MultiChipConfig.mul_config.advice[0]
        Body(l, start) ==
            [layout |-> AssignAdvice(l, start, temp_advice, 0, value),
             out |-> Cell(temp_advice, start + 0)]
    IN  AssignRegion(L, name, Body(Fresh(L), 0),
                     Body(Fresh(L), RegionRow(L, Body(Fresh(L), 0))))

\* MultiChipCircuit::synthesize: the "load a" / "load b" regions, which
\* assign the input at offset 0 of temp_advice = square_config.advice[0]
MultiChip_load_input(L, name, value) ==
    LET temp_advice == MultiChipConfig.square_config.advice[0]
        Body(l, start) ==
            [layout |-> AssignAdvice(l, start, temp_advice, 0, value),
             out |-> Cell(temp_advice, start + 0)]
    IN  AssignRegion(L, name, Body(Fresh(L), 0),
                     Body(Fresh(L), RegionRow(L, Body(Fresh(L), 0))))

\* layouter.constrain_instance(result.cell(), config.instance, 0)
MultiChip_constrain_instance(cell, row) ==
    <<cell, Cell(MultiChipConfig.instance, row)>>

---------------------------------------------------------------------------
(* large_range_analysis.rs: machine-integer helpers *)

\* value >> n on an unsigned integer
Shr(v, n) == v \div Pow2(n)

\* value & mask for a mask of the form 2^n - 1 (0xFF, 1)
AndMask(v, mask) == v % (mask + 1)

\* 0xFF in the source: the mask of one limb
LimbMask == LimbRange - 1

---------------------------------------------------------------------------
(* large_range_analysis.rs: BitDecompositionConfig (limb lookup strategy) *)

BitDecompositionConfig ==
    [value |-> Advice(0),
     bytes |-> [i \in 0..(NumLimbs - 1) |-> Advice(1 + i)],
     byte_table |-> TableColumn(0),
     s_decomp |-> Selector(0),
     s_lookup |-> Selector(1)]

\* Fault variant of bit_decomposition_sum: byte3 repeats byte2's weight
bit_decomposition_sum_dup_weight(byte0, byte1, byte2, byte3) ==
    FAdd(FAdd(FAdd(byte0,
                   FMul(byte1, FFrom(LimbRange))),
              FMul(byte2, FFrom(LimbRange * LimbRange))),
         FMul(byte3, FFrom(LimbRange * LimbRange)))

\* byte0 + byte1*256 + byte2*256*256 + byte3*256*256*256
bit_decomposition_sum(byte0, byte1, byte2, byte3) ==
    FAdd(FAdd(FAdd(byte0,
                   FMul(byte1, FFrom(LimbRange))),
              FMul(byte2, FFrom(LimbRange * LimbRange))),
         FMul(byte3, FFrom(LimbRange * LimbRange * LimbRange)))

\* Fault variant of bit_decomposition_gate: the polynomial is not multiplied
\* by s_decomp
bit_decomposition_gate_unguarded(s_decomp, value, byte0, byte1, byte2, byte3) ==
    FSub(value, bit_decomposition_sum(byte0, byte1, byte2, byte3))

\* create_gate("bit_decomposition"): s_decomp * (value - decomposition)
bit_decomposition_gate(s_decomp, value, byte0, byte1, byte2, byte3) ==
    FMul(s_decomp, FSub(value, bit_decomposition_sum(byte0, byte1, byte2, byte3)))

\* Fault variant of byte_lookup_input: the input expression is the byte
\* alone, not multiplied by s_lookup
byte_lookup_input_unguarded(s_lookup, byte_val) == byte_val

\* meta.lookup: the input expression s_lookup * byte_val, looked up in
\* byte_table
byte_lookup_input(s_lookup, byte_val) == FMul(s_lookup, byte_val)

\* Fault variant of load_byte_table: the range is inclusive (0..=256)
load_byte_table_inclusive == [value \in 0..LimbRange |-> FFrom(value)]

\* Fault variant of load_byte_table: the range starts at one (1..256)
load_byte_table_from_one == [value \in 1..(LimbRange - 1) |-> FFrom(value)]

\* load_byte_table: for value in 0..256 { assign_cell(byte_table, value,
\* F::from(value)) }
load_byte_table == [value \in 0..(LimbRange - 1) |-> FFrom(value)]

\* Fault variant of limb_of: the shift is one limb too far
limb_of_next(value, i) == AndMask(Shr(value, LimbBits * (i + 1)), LimbMask)

\* (value >> 8*i) & 0xFF
limb_of(value, i) == AndMask(Shr(value, LimbBits * i), LimbMask)

BitDecomposition_assign_and_decompose(L, value) ==
    LET config == BitDecompositionConfig
        byte0 == limb_of(value, 0)
        byte1 == limb_of(value, 1)
        byte2 == limb_of(value, 2)
        byte3 == limb_of(value, 3)
        Body(l, start) ==
            LET l1 == Enable(l, start, config.s_decomp, 0)
                l2 == Enable(l1, start, config.s_lookup, 0)
                l3 == AssignAdvice(l2, start, config.value, 0, FFrom(value))
                l4 == AssignAdvice(l3, start, config.bytes[0], 0, FFrom(byte0))
                l5 == AssignAdvice(l4, start, config.bytes[1], 0, FFrom(byte1))
                l6 == AssignAdvice(l5, start, config.bytes[2], 0, FFrom(byte2))
                l7 == AssignAdvice(l6, start, config.bytes[3], 0, FFrom(byte3))
            IN  [layout |-> l7, out |-> Cell(config.value, start + 0)]
    IN  AssignRegion(L, "bit decomposition", Body(Fresh(L), 0),
                     Body(Fresh(L), RegionRow(L, Body(Fresh(L), 0))))

---------------------------------------------------------------------------
(* large_range_analysis.rs: BinaryRangeConfig (binary constraint strategy) *)

BinaryRangeConfig ==
    [value |-> Advice(0),
     bits |-> [i \in 0..(NumBits - 1) |-> Advice(1 + i)],
     s_binary |-> Selector(0),
     s_composition |-> Selector(1)]

\* Fault variant of binary_constraint_gate: the second root is 2, not 1
binary_constraint_gate_root2(s_binary, bit) ==
    FMul(FMul(s_binary, bit), FSub(bit, 2))

\* create_gate("binary_constraint"): s_binary * bit * (bit - 1)
binary_constraint_gate(s_binary, bit) ==
    FMul(FMul(s_binary, bit), FSub(bit, 1))

\* the loop building `composition`: composition + bit_i * F::from(1 << i),
\* for i in 0..n, starting from zero
RECURSIVE composition(_, _)
composition(bits, n) ==
    IF n = 0 THEN 0
    ELSE FAdd(composition(bits, n - 1), FMul(bits[n - 1], FFrom(Pow2(n - 1))))

\* create_gate("composition_constraint"): s_composition * (value - composition)
composition_constraint_gate(s_composition, value, bits) ==
    FMul(s_composition, FSub(value, composition(bits, NumBits)))

\* Fault variant of bit_of: the bits are taken most significant first
bit_of_reversed(value, i) == AndMask(Shr(value, NumBits - 1 - i), 1)

\* (value >> i) & 1
bit_of(value, i) == AndMask(Shr(value, i), 1)

\* the loop `for i in 0..32 { assign_advice(bits[i], 0, F::from(bit)) }`,
\* its first n iterations
RECURSIVE BinaryRange_assign_bits(_, _, _, _)
BinaryRange_assign_bits(l, start, value, n) ==
    IF n = 0 THEN l
    ELSE AssignAdvice(BinaryRange_assign_bits(l, start, value, n - 1), start,
                      BinaryRangeConfig.bits[n - 1], 0,
                      FFrom(bit_of(value, n - 1)))

BinaryRange_assign_and_decompose(L, value) ==
    LET config == BinaryRangeConfig
        Body(l, start) ==
            LET l1 == Enable(l, start, config.s_binary, 0)
                l2 == Enable(l1, start, config.s_composition, 0)
                l3 == AssignAdvice(l2, start, config.value, 0, FFrom(value))
            IN  [layout |-> BinaryRange_assign_bits(l3, start, value, NumBits),
                 out |-> Cell(config.value, start + 0)]
    IN  AssignRegion(L, "binary decomposition", Body(Fresh(L), 0),
                     Body(Fresh(L), RegionRow(L, Body(Fresh(L), 0))))

---------------------------------------------------------------------------
(* The constraint system each Circuit::configure builds: its gates, in     *)
(* registration order, and its lookup arguments.                           *)

GateNames(c) ==
    CASE c = "SquareSum" -> (0 :> "square") @@ (1 :> "add")
      [] c = "Optimized" -> (0 :> "add_gate") @@ (1 :> "mul_gate") @@ (2 :> "square_gate")
      [] c = "MultiChip" -> (0 :> "square_gate") @@ (1 :> "add_three_gate")
                            @@ (2 :> "mul_with_constant_gate")
      [] c = "BitDecomposition" -> (0 :> "bit_decomposition")
      [] c = "BinaryRange" ->
            [i \in 0..NumBits |->
                IF i < NumBits THEN "binary_constraint" ELSE "composition_constraint"]

GateValue_SquareSum(i, g, S, r) ==
    LET cfg == SquareSumConfig IN
    IF i = 0
    THEN SquareSum_square_gate(QuerySelector(S, cfg.s_square, r),
                               Query(g, cfg.advice[0], r),
                               Query(g, cfg.advice[1], r))
    ELSE SquareSum_add_gate(QuerySelector(S, cfg.s_add, r),
                            Query(g, cfg.advice[0], r),
                            Query(g, cfg.advice[1], r),
                            Query(g, cfg.advice[2], r))

\* add_gate and square_gate query advice[0] at Rotation::next()
GateValue_Optimized(i, g, S, r) ==
    LET cfg == OptimizedFieldConfig IN
    CASE i = 0 -> Optimized_add_gate(QuerySelector(S, cfg.s_add, r),
                                     Query(g, cfg.advice[0], r),
                                     Query(g, cfg.advice[1], r),
                                     Query(g, cfg.advice[2], r),
                                     Query(g, cfg.advice[0], r + 1))
      [] i = 1 -> Optimized_mul_gate(QuerySelector(S, cfg.s_mul, r),
                                     Query(g, cfg.advice[0], r),
                                     Query(g, cfg.advice[1], r),
                                     Query(g, cfg.advice[2], r),
                                     Query(g, cfg.constant, r))
      [] i = 2 -> Optimized_square_gate(QuerySelector(S, cfg.s_sq, r),
                                        Query(g, cfg.advice[0], r),
                                        Query(g, cfg.advice[0], r + 1))

GateValue_MultiChip(i, g, S, r) ==
    LET sq == MultiChipConfig.square_config
        ad == MultiChipConfig.add_config
        mu == MultiChipConfig.mul_config IN
    CASE i = 0 -> SquareChip_square_gate(QuerySelector(S, sq.s_square, r),
                                         Query(g, sq.advice[0], r),
                                         Query(g, sq.advice[1], r))
      [] i = 1 -> AddChip_add_three_gate(QuerySelector(S, ad.s_add, r),
                                         Query(g, ad.advice[0], r),
                                         Query(g, ad.advice[1], r),
                                         Query(g, ad.advice[2], r),
                                         Query(g, ad.advice[3], r))
      [] i = 2 -> MulChip_mul_with_constant_gate(QuerySelector(S, mu.s_mul, r),
                                                 Query(g, mu.advice[0], r),
                                                 Query(g, mu.advice[1], r),
                                                 Query(g, mu.advice[2], r),
                                                 Query(g, mu.constant, r))

GateValue_BitDecomposition(i, g, S, r) ==
    LET cfg == BitDecompositionConfig IN
    bit_decomposition_gate(QuerySelector(S, cfg.s_decomp, r),
                           Query(g, cfg.value, r),
                           Query(g, cfg.bytes[0], r),
                           Query(g, cfg.bytes[1], r),
                           Query(g, cfg.bytes[2], r),
                           Query(g, cfg.bytes[3], r))

\* gates 0..31 are the binary_constraint of bits[i]; the last gate is the
\* composition_constraint
GateValue_BinaryRange(i, g, S, r) ==
    LET cfg == BinaryRangeConfig IN
    IF i < NumBits
    THEN binary_constraint_gate(QuerySelector(S, cfg.s_binary, r),
                                Query(g, cfg.bits[i], r))
    ELSE composition_constraint_gate(
             QuerySelector(S, cfg.s_composition, r),
             Query(g, cfg.value, r),
             [j \in 0..(NumBits - 1) |-> Query(g, cfg.bits[j], r)])

\* The selector each gate is multiplied by
GateSelector(c, i) ==
    CASE c = "SquareSum" ->
            IF i = 0 THEN SquareSumConfig.s_square ELSE SquareSumConfig.s_add
      [] c = "Optimized" ->
            (CASE i = 0 -> OptimizedFieldConfig.s_add
              [] i = 1 -> OptimizedFieldConfig.s_mul
              [] i = 2 -> OptimizedFieldConfig.s_sq)
      [] c = "MultiChip" ->
            (CASE i = 0 -> MultiChipConfig.square_config.s_square
              [] i = 1 -> MultiChipConfig.add_config.s_add
              [] i = 2 -> MultiChipConfig.mul_config.s_mul)
      [] c = "BitDecomposition" -> BitDecompositionConfig.s_decomp
      [] c = "BinaryRange" ->
            IF i < NumBits THEN BinaryRangeConfig.s_binary
            ELSE BinaryRangeConfig.s_composition

\* The meta.query_advice / query_fixed calls of each gate: <<column,
\* rotation>>, Rotation::cur() being 0 and Rotation::next() 1
GateQueries(c, i) ==
    CASE c = "SquareSum" ->
            IF i = 0
            THEN {<<SquareSumConfig.advice[0], 0>>, <<SquareSumConfig.advice[1], 0>>}
            ELSE {<<SquareSumConfig.advice[k], 0>> : k \in 0..2}
      [] c = "Optimized" ->
            (CASE i = 0 -> {<<OptimizedFieldConfig.advice[k], 0>> : k \in 0..2}
                              \cup {<<OptimizedFieldConfig.advice[0], 1>>}
              [] i = 1 -> {<<OptimizedFieldConfig.advice[k], 0>> : k \in 0..2}
                              \cup {<<OptimizedFieldConfig.constant, 0>>}
              [] i = 2 -> {<<OptimizedFieldConfig.advice[0], 0>>,
                           <<OptimizedFieldConfig.advice[0], 1>>})
      [] c = "MultiChip" ->
            (CASE i = 0 -> {<<MultiChipConfig.square_config.advice[k], 0>> : k \in 0..1}
              [] i = 1 -> {<<MultiChipConfig.add_config.advice[k], 0>> : k \in 0..3}
              [] i = 2 -> {<<MultiChipConfig.mul_config.advice[k], 0>> : k \in 0..2}
                              \cup {<<MultiChipConfig.mul_config.constant, 0>>})
      [] c = "BitDecomposition" ->
            {<<BitDecompositionConfig.value, 0>>}
                \cup {<<BitDecompositionConfig.bytes[k], 0>> : k \in 0..(NumLimbs - 1)}
      [] c = "BinaryRange" ->
            IF i < NumBits THEN {<<BinaryRangeConfig.bits[i], 0>>}
            ELSE {<<BinaryRangeConfig.value, 0>>}
                    \cup {<<BinaryRangeConfig.bits[k], 0>> : k \in 0..(NumBits - 1)}

\* The value of gate i of circuit c at row r, over grid g and selectors S.
GateValue(c, i, g, S, r) ==
    CASE c = "SquareSum" -> GateValue_SquareSum(i, g, S, r)
      [] c = "Optimized" -> GateValue_Optimized(i, g, S, r)
      [] c = "MultiChip" -> GateValue_MultiChip(i, g, S, r)
      [] c = "BitDecomposition" -> GateValue_BitDecomposition(i, g, S, r)
      [] c = "BinaryRange" -> GateValue_BinaryRange(i, g, S, r)

\* The lookup arguments of circuit c: BitDecompositionConfig::configure
\* registers one per limb column; the other circuits register none.
Lookups(c) == IF c = "BitDecomposition" THEN 0..(NumLimbs - 1) ELSE {}

\* The input expression of lookup i at row r
LookupInput(c, i, g, S, r) ==
    byte_lookup_input(QuerySelector(S, BitDecompositionConfig.s_lookup, r),
                      Query(g, BitDecompositionConfig.bytes[i], r))

---------------------------------------------------------------------------
(* The verifier (specification section 4.5), in verify-all mode: the set   *)
(* of every failure of the four check categories.                          *)

Failure(kind, name, index, row, cells) ==
    [kind |-> kind, name |-> name, index |-> index, row |-> row, cells |-> cells]

GateFailures(c, g, S) ==
    {Failure("GateViolation", GateNames(c)[x[1]], x[1], x[2], {}) :
        x \in {y \in (DOMAIN GateNames(c)) \X Rows :
                  GateValue(c, y[1], g, S, y[2]) # 0}}

TableValues(tb) == {tb[r] : r \in DOMAIN tb}

LookupFailures(c, g, S, tb) ==
    {Failure("LookupMiss", "lookup", x[1], x[2], {}) :
        x \in {y \in Lookups(c) \X Rows :
                  LookupInput(c, y[1], g, S, y[2]) \notin TableValues(tb)}}

CopyFailures(g, cp) ==
    {Failure("CopyMismatch", "", 0, 0, {x[1], x[2]}) :
        x \in {y \in cp : g[y[1]] # g[y[2]]}}

InstanceValue(inst, row) == IF row \in DOMAIN inst THEN inst[row] ELSE 0

InstanceFailures(g, bd, inst) ==
    {Failure("InstanceMismatch", "", 0, x[2][2], {x[1]}) :
        x \in {y \in bd : g[y[1]] # InstanceValue(inst, y[2][2])}}

VerifyAll(c, g, S, cp, bd, tb, inst) ==
    GateFailures(c, g, S) \cup LookupFailures(c, g, S, tb)
        \cup CopyFailures(g, cp) \cup InstanceFailures(g, bd, inst)

---------------------------------------------------------------------------
(* Column space and constraint builder (specification section 4.1).  A     *)
(* constraint system counts the columns and selectors allocated and       *)
(* lists the equality-enabled columns, the gates and the lookups           *)
(* registered; an allocation returns the next index of its kind.           *)

EmptyConstraintSystem ==
    [advice |-> 0, fixed |-> 0, instance |-> 0, table |-> 0, selector |-> 0,
     equality |-> {}, gates |-> <<>>, lookups |-> <<>>]

\* meta.advice_column(): the column allocated is Advice(meta.advice)
advice_column(meta) == [meta EXCEPT !.advice = @ + 1]

\* meta.fixed_column()
fixed_column(meta) == [meta EXCEPT !.fixed = @ + 1]

\* meta.instance_column()
instance_column(meta) == [meta EXCEPT !.instance = @ + 1]

\* meta.lookup_table_column()
lookup_table_column(meta) == [meta EXCEPT !.table = @ + 1]

\* meta.selector() and meta.complex_selector()
selector(meta) == [meta EXCEPT !.selector = @ + 1]

\* meta.enable_equality(column); meta.enable_constant(fixed column) enables
\* equality on the fixed column
enable_equality(meta, col) == [meta EXCEPT !.equality = @ \cup {col}]

\* The check of copy_advice: both columns of every copy constraint in cp
\* have equality enabled
EqualityEnabled(meta, cp) ==
    \A p \in cp : p[1][1] \in meta.equality /\ p[2][1] \in meta.equality

\* meta.create_gate(name, ..)
create_gate(meta, name) == [meta EXCEPT !.gates = Append(@, name)]

\* meta.lookup(..): the input column and the table column of the argument
lookup(meta, col, tableCol) == [meta EXCEPT !.lookups = Append(@, <<col, tableCol>>)]

\* n consecutive meta.advice_column() calls
RECURSIVE advice_columns(_, _)
advice_columns(meta, n) ==
    IF n = 0 THEN meta ELSE advice_column(advice_columns(meta, n - 1))

\* for c in &advice { meta.enable_equality(*c) } over the first n columns
RECURSIVE enable_equality_each(_, _, _)
enable_equality_each(meta, cols, n) ==
    IF n = 0 THEN meta
    ELSE enable_equality(enable_equality_each(meta, cols, n - 1), cols[n - 1])

\* The columns and selectors a constraint system has allocated
Allocated(meta) ==
    {Advice(i) : i \in 0..(meta.advice - 1)}
        \cup {Fixed(i) : i \in 0..(meta.fixed - 1)}
        \cup {Instance(i) : i \in 0..(meta.instance - 1)}
        \cup {TableColumn(i) : i \in 0..(meta.table - 1)}
        \cup {Selector(i) : i \in 0..(meta.selector - 1)}

(* basic_chip.rs *)

SquareSumChip_configure(meta, advice, instance_col) ==
    LET c1 == enable_equality(meta, instance_col)
        c2 == enable_equality_each(c1, advice, 3)
        s_square == Selector(c2.selector)
        c3 == selector(c2)
        s_add == Selector(c3.selector)
        c4 == selector(c3)
        c5 == create_gate(c4, "square")
        c6 == create_gate(c5, "add")
    IN  [cs |-> c6,
         config |-> [advice |-> advice, instance |-> instance_col,
                     s_square |-> s_square, s_add |-> s_add]]

SquareSumCircuit_configure(meta) ==
    LET advice == [i \in 0..2 |-> Advice(meta.advice + i)]
        c1 == advice_columns(meta, 3)
        instance_col == Instance(c1.instance)
        c2 == instance_column(c1)
    IN  SquareSumChip_configure(c2, advice, instance_col)

(* basic_middle.rs *)

OptimizedFieldChip_configure(meta, advice, instance_col, constant) ==
    LET c1 == enable_equality(meta, instance_col)
        c2 == enable_equality(c1, constant)
        c3 == enable_equality_each(c2, advice, 3)
        s_add == Selector(c3.selector)
        c4 == selector(c3)
        s_mul == Selector(c4.selector)
        c5 == selector(c4)
        s_sq == Selector(c5.selector)
        c6 == selector(c5)
        c7 == create_gate(c6, "add_gate")
        c8 == create_gate(c7, "mul_gate")
        c9 == create_gate(c8, "square_gate")
    IN  [cs |-> c9,
         config |-> [advice |-> advice, instance |-> instance_col,
                     constant |-> constant,
                     s_add |-> s_add, s_mul |-> s_mul, s_sq |-> s_sq]]

OptimizedCircuit_configure(meta) ==
    LET advice == [i \in 0..2 |-> Advice(meta.advice + i)]
        c1 == advice_columns(meta, 3)
        instance_col == Instance(c1.instance)
        c2 == instance_column(c1)
        constant == Fixed(c2.fixed)
        c3 == fixed_column(c2)
    IN  OptimizedFieldChip_configure(c3, advice, instance_col, constant)

(* multi_chip_design.rs *)

\* Fault variant of SquareChip_configure: the loop enabling equality on the
\* advice columns is missing
SquareChip_configure_no_equality(meta, advice) ==
    LET s_square == Selector(meta.selector)
        c1 == selector(meta)
        c3 == create_gate(c1, "square_gate")
    IN  [cs |-> c3, config |-> [advice |-> advice, s_square |-> s_square]]

SquareChip_configure(meta, advice) ==
    LET s_square == Selector(meta.selector)
        c1 == selector(meta)
        c2 == enable_equality_each(c1, advice, 2)
        c3 == create_gate(c2, "square_gate")
    IN  [cs |-> c3, config |-> [advice |-> advice, s_square |-> s_square]]

AddChip_configure(meta, advice) ==
    LET s_add == Selector(meta.selector)
        c1 == selector(meta)
        c2 == enable_equality_each(c1, advice, 4)
        c3 == create_gate(c2, "add_three_gate")
    IN  [cs |-> c3, config |-> [advice |-> advice, s_add |-> s_add]]

MulChip_configure(meta, advice, constant) ==
    LET s_mul == Selector(meta.selector)
        c1 == selector(meta)
        c2 == enable_equality(c1, constant)
        c3 == enable_equality_each(c2, advice, 3)
        c4 == create_gate(c3, "mul_with_constant_gate")
    IN  [cs |-> c4,
         config |-> [advice |-> advice, constant |-> constant, s_mul |-> s_mul]]

\* Fault variant of MultiChipCircuit_configure: the mul chip is left
\* unconfigured and its config is made up of columns never allocated
MultiChipCircuit_configure_without_mul(meta) ==
    LET instance_col == Instance(meta.instance)
        c1 == enable_equality(instance_column(meta), instance_col)
        square_advice == [i \in 0..1 |-> Advice(c1.advice + i)]
        sq == SquareChip_configure(advice_columns(c1, 2), square_advice)
        add_advice == [i \in 0..3 |-> Advice(sq.cs.advice + i)]
        ad == AddChip_configure(advice_columns(sq.cs, 4), add_advice)
    IN  [cs |-> ad.cs,
         config |-> [square_config |-> sq.config, add_config |-> ad.config,
                     mul_config |-> [advice |-> [i \in 0..2 |-> Advice(ad.cs.advice + i)],
                                     constant |-> Fixed(ad.cs.fixed),
                                     s_mul |-> Selector(ad.cs.selector)],
                     instance |-> instance_col]]

MultiChipCircuit_configure(meta) ==
    LET instance_col == Instance(meta.instance)
        c1 == enable_equality(instance_column(meta), instance_col)
        square_advice == [i \in 0..1 |-> Advice(c1.advice + i)]
        sq == SquareChip_configure(advice_columns(c1, 2), square_advice)
        add_advice == [i \in 0..3 |-> Advice(sq.cs.advice + i)]
        ad == AddChip_configure(advice_columns(sq.cs, 4), add_advice)
        mul_advice == [i \in 0..2 |-> Advice(ad.cs.advice + i)]
        c2 == advice_columns(ad.cs, 3)
        mul_constant == Fixed(c2.fixed)
        mu == MulChip_configure(fixed_column(c2), mul_advice, mul_constant)
    IN  [cs |-> mu.cs,
         config |-> [square_config |-> sq.config, add_config |-> ad.config,
                     mul_config |-> mu.config, instance |-> instance_col]]

(* large_range_analysis.rs *)

\* for &col in bytes.iter() { meta.lookup(..) } over the first n limb columns
RECURSIVE lookup_each(_, _, _, _)
lookup_each(meta, cols, tableCol, n) ==
    IF n = 0 THEN meta
    ELSE lookup(lookup_each(meta, cols, tableCol, n - 1), cols[n - 1], tableCol)

BitDecompositionConfig_configure(meta, value, bytes, byte_table) ==
    LET s_decomp == Selector(meta.selector)
        c1 == selector(meta)
        s_lookup == Selector(c1.selector)
        c2 == selector(c1)
        c3 == enable_equality(c2, value)
        c4 == enable_equality_each(c3, bytes, NumLimbs)
        c5 == create_gate(c4, "bit_decomposition")
        c6 == lookup_each(c5, bytes, byte_table, NumLimbs)
    IN  [cs |-> c6,
         config |-> [value |-> value, bytes |-> bytes, byte_table |-> byte_table,
                     s_decomp |-> s_decomp, s_lookup |-> s_lookup]]

BitDecompositionCircuit_configure(meta) ==
    LET value == Advice(meta.advice)
        c1 == advice_column(meta)
        bytes == [i \in 0..(NumLimbs - 1) |-> Advice(c1.advice + i)]
        c2 == advice_columns(c1, NumLimbs)
        byte_table == TableColumn(c2.table)
        c3 == lookup_table_column(c2)
    IN  BitDecompositionConfig_configure(c3, value, bytes, byte_table)

\* for (i, &bit_col) in bits.iter().enumerate() { meta.create_gate(..) }
RECURSIVE create_binary_gates(_, _)
create_binary_gates(meta, n) ==
    IF n = 0 THEN meta
    ELSE create_gate(create_binary_gates(meta, n - 1), "binary_constraint")

BinaryRangeConfig_configure(meta, value, bits) ==
    LET s_binary == Selector(meta.selector)
        c1 == selector(meta)
        s_composition == Selector(c1.selector)
        c2 == selector(c1)
        c3 == enable_equality(c2, value)
        c4 == enable_equality_each(c3, bits, NumBits)
        c5 == create_binary_gates(c4, NumBits)
        c6 == create_gate(c5, "composition_constraint")
    IN  [cs |-> c6,
         config |-> [value |-> value, bits |-> bits,
                     s_binary |-> s_binary, s_composition |-> s_composition]]

BinaryRangeCircuit_configure(meta) ==
    LET value == Advice(meta.advice)
        c1 == advice_column(meta)
        bits == [i \in 0..(NumBits - 1) |-> Advice(c1.advice + i)]
        c2 == advice_columns(c1, NumBits)
    IN  BinaryRangeConfig_configure(c2, value, bits)

\* Circuit::configure of circuit c on a constraint system
Configuration(c, meta) ==
    CASE c = "SquareSum" -> SquareSumCircuit_configure(meta)
      [] c = "Optimized" -> OptimizedCircuit_configure(meta)
      [] c = "MultiChip" -> MultiChipCircuit_configure(meta)
      [] c = "BitDecomposition" -> BitDecompositionCircuit_configure(meta)
      [] c = "BinaryRange" -> BinaryRangeCircuit_configure(meta)

\* The Config value the chips of circuit c synthesize with
ConfigOf(c) ==
    CASE c = "SquareSum" -> SquareSumConfig
      [] c = "Optimized" -> OptimizedFieldConfig
      [] c = "MultiChip" -> MultiChipConfig
      [] c = "BitDecomposition" -> BitDecompositionConfig
      [] c = "BinaryRange" -> BinaryRangeConfig

---------------------------------------------------------------------------
(* The state machine: one circuit build, statement by statement, then the  *)
(* verifier.                                                               *)

\* Number of statements of each Circuit::synthesize that act on the layouter
SynthLength(c) ==
    CASE c = "SquareSum" -> 6
      [] c = "Optimized" -> 7
      [] c = "MultiChip" -> 7
      [] c = "BitDecomposition" -> 2
      [] c = "BinaryRange" -> 1

Init ==
    /\ circuit \in Circuits
    /\ inA \in (IF circuit \in ArithCircuits THEN 0..(FieldModulus(circuit) - 1) ELSE {0})
    /\ inB \in (IF circuit \in ArithCircuits THEN 0..(FieldModulus(circuit) - 1) ELSE {0})
    /\ inK \in (IF circuit \in {"Optimized", "MultiChip"}
                THEN 0..(FieldModulus(circuit) - 1) ELSE {0})
    /\ inV \in (IF circuit \in RangeCircuits THEN 0..(U32Range - 1) ELSE {0})
    /\ pc = 0
    /\ grid = <<>>
    /\ selectors = {}
    /\ copies = {}
    /\ binds = {}
    /\ colNext = <<>>
    /\ regions = <<>>
    /\ table = <<>>
    /\ tableLoads = 0
    /\ handles = <<>>
    /\ tampered = {}
    /\ phase = "configuring"
    /\ instance = <<>>
    /\ failures = {}
    /\ cs = EmptyConstraintSystem
    /\ error = "none"

PhaseAfter(step) ==
    IF step + 1 = SynthLength(circuit) THEN "synthesized" ELSE "synthesizing"

\* A statement `let h = chip.op(layouter, ...)?` whose result r is
\* [layout, out]: the layout replaces the layouter's, h names the cell
\* With a copy_advice between columns without equality enabled the `?`
\* returns the error and the build is over.
StepRegion(r, h) ==
    IF EqualityEnabled(cs, r.layout.copies \ copies)
    THEN /\ grid' = r.layout.grid
         /\ selectors' = r.layout.selectors
         /\ copies' = r.layout.copies
         /\ colNext' = r.layout.colNext
         /\ regions' = r.layout.regions
         /\ handles' = Put(handles, h, r.out)
         /\ pc' = pc + 1
         /\ phase' = PhaseAfter(pc)
         /\ UNCHANGED <<circuit, inA, inB, inK, inV, binds, table, tableLoads,
                        tampered, instance, failures, cs, error>>
    ELSE /\ error' = "EqualityNotEnabled"
         /\ phase' = "failed"
         /\ UNCHANGED <<circuit, inA, inB, inK, inV, pc, grid, selectors, copies,
                        binds, colNext, regions, table, tableLoads, handles,
                        tampered, instance, failures, cs>>

\* A statement `layouter.constrain_instance(cell, column, row)?`
StepBind(b) ==
    /\ binds' = binds \cup {b}
    /\ pc' = pc + 1
    /\ phase' = PhaseAfter(pc)
    /\ UNCHANGED <<circuit, inA, inB, inK, inV, grid, selectors, copies, colNext,
                   regions, table, tableLoads, handles, tampered, instance,
                   failures, cs, error>>

Synthesizing(c) == circuit = c /\ phase = "synthesizing"

(* MockProver::run calls Circuit::configure on a fresh constraint system,  *)
(* then synthesize.                                                        *)
Configure ==
    /\ phase = "configuring"
    /\ cs' = Configuration(circuit, cs).cs
    /\ phase' = "synthesizing"
    /\ UNCHANGED <<circuit, inA, inB, inK, inV, pc, grid, selectors, copies, binds,
                   colNext, regions, table, tableLoads, handles, tampered,
                   instance, failures, error>>

(* SquareSumCircuit::synthesize *)

SquareSum_load_private ==
    /\ Synthesizing("SquareSum") /\ pc \in {0, 1}
    /\ StepRegion(SquareSumChip_load_private(Layout, IF pc = 0 THEN inA ELSE inB),
                  IF pc = 0 THEN "a" ELSE "b")

SquareSum_square ==
    /\ Synthesizing("SquareSum") /\ pc \in {2, 3}
    /\ StepRegion(SquareSumChip_square(Layout, handles[IF pc = 2 THEN "a" ELSE "b"]),
                  IF pc = 2 THEN "a_squared" ELSE "b_squared")

SquareSum_add ==
    /\ Synthesizing("SquareSum") /\ pc = 4
    /\ StepRegion(SquareSumChip_add(Layout, handles["a_squared"], handles["b_squared"]),
                  "result")

SquareSum_expose_public ==
    /\ Synthesizing("SquareSum") /\ pc = 5
    /\ StepBind(SquareSumChip_expose_public(handles["result"], 0))

(* OptimizedCircuit::synthesize *)

Optimized_load_private ==
    /\ Synthesizing("Optimized") /\ pc \in {0, 1}
    /\ StepRegion(OptimizedFieldChip_load_private(Layout, IF pc = 0 THEN inA ELSE inB),
                  IF pc = 0 THEN "a" ELSE "b")

Optimized_square ==
    /\ Synthesizing("Optimized") /\ pc \in {2, 3}
    /\ StepRegion(OptimizedFieldChip_square(Layout, handles[IF pc = 2 THEN "a" ELSE "b"]),
                  IF pc = 2 THEN "a_sq" ELSE "b_sq")

Optimized_mul_with_constant ==
    /\ Synthesizing("Optimized") /\ pc = 4
    /\ StepRegion(OptimizedFieldChip_mul_with_constant(
                      Layout, handles["a"], handles["b"], inK),
                  "ab_const")

Optimized_add_three ==
    /\ Synthesizing("Optimized") /\ pc = 5
    /\ StepRegion(OptimizedFieldChip_add_three(
                      Layout, handles["a_sq"], handles["b_sq"], handles["ab_const"]),
                  "result")

Optimized_expose_public ==
    /\ Synthesizing("Optimized") /\ pc = 6
    /\ StepBind(OptimizedFieldChip_expose_public(handles["result"], 0))

(* MultiChipCircuit::synthesize *)

MultiChip_load ==
    /\ Synthesizing("MultiChip") /\ pc \in {0, 1}
    /\ StepRegion(MultiChip_load_input(Layout,
                                       IF pc = 0 THEN "load a" ELSE "load b",
                                       IF pc = 0 THEN inA ELSE inB),
                  IF pc = 0 THEN "a" ELSE "b")

MultiChip_square ==
    /\ Synthesizing("MultiChip") /\ pc \in {2, 3}
    /\ StepRegion(SquareChip_square(Layout, handles[IF pc = 2 THEN "a" ELSE "b"]),
                  IF pc = 2 THEN "a_squared" ELSE "b_squared")

MultiChip_mul_with_constant ==
    /\ Synthesizing("MultiChip") /\ pc = 4
    /\ StepRegion(MulChip_mul_with_constant(Layout, handles["a"], handles["b"], inK),
                  "ab_const")

MultiChip_add_three ==
    /\ Synthesizing("MultiChip") /\ pc = 5
    /\ StepRegion(AddChip_add_three(Layout, handles["a_squared"],
                                    handles["b_squared"], handles["ab_const"]),
                  "result")

MultiChip_expose ==
    /\ Synthesizing("MultiChip") /\ pc = 6
    /\ StepBind(MultiChip_constrain_instance(handles["result"], 0))

(* BitDecompositionCircuit::synthesize *)

BitDecomposition_load_byte_table ==
    /\ Synthesizing("BitDecomposition") /\ pc = 0
    /\ table' = load_byte_table
    /\ tableLoads' = tableLoads + 1
    /\ pc' = pc + 1
    /\ phase' = PhaseAfter(pc)
    /\ UNCHANGED <<circuit, inA, inB, inK, inV, grid, selectors, copies, binds,
                   colNext, regions, handles, tampered, instance, failures,
                   cs, error>>

BitDecomposition_decompose ==
    /\ Synthesizing("BitDecomposition") /\ pc = 1
    /\ StepRegion(BitDecomposition_assign_and_decompose(Layout, inV), "value_cell")

(* BinaryRangeCircuit::synthesize *)

BinaryRange_decompose ==
    /\ Synthesizing("BinaryRange") /\ pc = 0
    /\ StepRegion(BinaryRange_assign_and_decompose(Layout, inV), "value_cell")

(* MockProver::run(k, &circuit, vec![public_inputs]) followed by verify():  *)
(* the arithmetic circuits are given one public input, the range circuits  *)
(* none.  Synthesis never reads the public inputs, so they are chosen here. *)

PublicInputs ==
    IF circuit \in ArithCircuits THEN {(0 :> p) : p \in Field} ELSE {<<>>}

Verify ==
    /\ phase = "synthesized"
    /\ \E inst \in PublicInputs :
          /\ instance' = inst
          /\ failures' = VerifyAll(circuit, grid, selectors, copies, binds, table, inst)
    /\ phase' = "verified"
    /\ UNCHANGED <<circuit, inA, inB, inK, inV, pc, grid, selectors, copies, binds,
                   colNext, regions, table, tableLoads, handles, tampered,
                   cs, error>>

\* A fault: after synthesis and before verification, one assigned advice
\* cell is overwritten with another field value.
Tamper ==
    /\ phase = "synthesized"
    /\ tampered = {}
    /\ \E c \in DOMAIN grid : \E x \in Field :
          /\ c[1][1] = "advice"
          /\ x <= MaxTamperValue
          /\ x # grid[c]
          /\ grid' = [grid EXCEPT ![c] = x]
          /\ tampered' = {c}
    /\ UNCHANGED <<circuit, inA, inB, inK, inV, pc, selectors, copies, binds,
                   colNext, regions, table, tableLoads, handles, phase, instance,
                   failures, cs, error>>

Synthesize ==
    \/ SquareSum_load_private
    \/ SquareSum_square
    \/ SquareSum_add
    \/ SquareSum_expose_public
    \/ Optimized_load_private
    \/ Optimized_square
    \/ Optimized_mul_with_constant
    \/ Optimized_add_three
    \/ Optimized_expose_public
    \/ MultiChip_load
    \/ MultiChip_square
    \/ MultiChip_mul_with_constant
    \/ MultiChip_add_three
    \/ MultiChip_expose
    \/ BitDecomposition_load_byte_table
    \/ BitDecomposition_decompose
    \/ BinaryRange_decompose

Next == Configure \/ Synthesize \/ Verify

Spec == Init /\ [][Next]_vars

\* A fault: the configuration leaves equality disabled on one of the columns
\* the circuit's configure enables it on.
ConfigureWithoutEquality ==
    /\ phase = "configuring"
    /\ \E col \in Configuration(circuit, cs).cs.equality :
          cs' = [Configuration(circuit, cs).cs EXCEPT !.equality = @ \ {col}]
    /\ phase' = "synthesizing"
    /\ UNCHANGED <<circuit, inA, inB, inK, inV, pc, grid, selectors, copies, binds,
                   colNext, regions, table, tableLoads, handles, tampered,
                   instance, failures, error>>

NextMissingEquality == Next \/ ConfigureWithoutEquality

SpecMissingEquality == Init /\ [][NextMissingEquality]_vars

\* The range-check circuits alone, with the fault
InitRange == Init /\ circuit \in RangeCircuits

NextRangeTamper ==
    \/ Configure
    \/ BitDecomposition_load_byte_table
    \/ BitDecomposition_decompose
    \/ BinaryRange_decompose
    \/ Verify
    \/ Tamper

SpecRangeTamper == InitRange /\ [][NextRangeTamper]_vars

\* A call on the constraint system, whose effect would be `next`: once
\* configuration is closed it is refused and the constraint system is left
\* as it was.
ConstraintSystemCall(sealed, meta, next) ==
    IF sealed
    THEN [cs |-> meta, error |-> "ConfigurationPhaseClosed"]
    ELSE [cs |-> next, error |-> "none"]

ColumnKinds == {"advice", "fixed", "instance", "table", "selector"}

\* allocate_column(kind) / allocate_selector()
Allocate(meta, kind) ==
    CASE kind = "advice" -> advice_column(meta)
      [] kind = "fixed" -> fixed_column(meta)
      [] kind = "instance" -> instance_column(meta)
      [] kind = "table" -> lookup_table_column(meta)
      [] kind = "selector" -> selector(meta)

\* An attempt to allocate a column or a selector after configuration
LateAllocateColumn ==
    /\ phase # "configuring"
    /\ error = "none"
    /\ \E kind \in ColumnKinds :
          LET r == ConstraintSystemCall(phase # "configuring", cs, Allocate(cs, kind))
          IN  cs' = r.cs /\ error' = r.error
    /\ UNCHANGED <<circuit, inA, inB, inK, inV, pc, grid, selectors, copies, binds,
                   colNext, regions, table, tableLoads, handles, tampered, phase,
                   instance, failures>>

\* An attempt to register a gate or a lookup after configuration
LateCreateGate ==
    /\ phase # "configuring"
    /\ error = "none"
    /\ \E next \in {create_gate(cs, "late"), lookup(cs, Advice(0), TableColumn(0))} :
          LET r == ConstraintSystemCall(phase # "configuring", cs, next)
          IN  cs' = r.cs /\ error' = r.error
    /\ UNCHANGED <<circuit, inA, inB, inK, inV, pc, grid, selectors, copies, binds,
                   colNext, regions, table, tableLoads, handles, tampered, phase,
                   instance, failures>>

NextLateConfiguration == Next \/ LateAllocateColumn \/ LateCreateGate

SpecLateConfiguration == Init /\ [][NextLateConfiguration]_vars

\* The largest private input and constant of the arithmetic circuits under
\* the fault
MaxTamperInput == 2

\* The arithmetic circuits alone, with the fault
InitArithTamper ==
    /\ Init
    /\ circuit \in ArithCircuits
    /\ inA <= MaxTamperInput /\ inB <= MaxTamperInput /\ inK <= MaxTamperInput

NextArithTamper ==
    \/ Configure
    \/ SquareSum_load_private
    \/ SquareSum_square
    \/ SquareSum_add
    \/ SquareSum_expose_public
    \/ Optimized_load_private
    \/ Optimized_square
    \/ Optimized_mul_with_constant
    \/ Optimized_add_three
    \/ Optimized_expose_public
    \/ MultiChip_load
    \/ MultiChip_square
    \/ MultiChip_mul_with_constant
    \/ MultiChip_add_three
    \/ MultiChip_expose
    \/ Verify
    \/ Tamper

SpecArithTamper == InitArithTamper /\ [][NextArithTamper]_vars

(* OptimizedCircuit synthesized by a prover that chooses the witness: the   *)
(* value of every assign_advice whose closure computes a witness is any     *)
(* field element; copy_advice still copies, and the loads take the inputs.  *)

InitForgedWitness ==
    /\ Init
    /\ circuit = "Optimized"
    /\ inA <= MaxTamperInput /\ inB <= MaxTamperInput /\ inK <= MaxTamperInput

Forged_square ==
    /\ Synthesizing("Optimized") /\ pc \in {2, 3}
    /\ \E value_sq \in Field :
          StepRegion(OptimizedFieldChip_square_region(
                         Layout, handles[IF pc = 2 THEN "a" ELSE "b"], value_sq),
                     IF pc = 2 THEN "a_sq" ELSE "b_sq")

Forged_mul_with_constant ==
    /\ Synthesizing("Optimized") /\ pc = 4
    /\ \E result \in Field :
          StepRegion(OptimizedFieldChip_mul_with_constant_region(
                         Layout, handles["a"], handles["b"], inK, result),
                     "ab_const")

Forged_add_three ==
    /\ Synthesizing("Optimized") /\ pc = 5
    /\ \E sum \in Field :
          StepRegion(OptimizedFieldChip_add_three_region(
                         Layout, handles["a_sq"], handles["b_sq"],
                         handles["ab_const"], sum),
                     "result")

NextForgedWitness ==
    \/ Configure
    \/ Optimized_load_private
    \/ Forged_square
    \/ Forged_mul_with_constant
    \/ Forged_add_three
    \/ Optimized_expose_public

SpecForgedWitness == InitForgedWitness /\ [][NextForgedWitness]_vars

---------------------------------------------------------------------------
(* Expected outputs, as the tests compute them *)

\* test_square_sum_circuit: c = a.square() + b.square()
ExpectedSquareSum(a, b) == FAdd(FSquare(a), FSquare(b))

\* test_optimized_circuit / test_multi_chip_circuit:
\* expected_output = a.square() + b.square() + (a * b * constant)
ExpectedOutput(a, b, constant) ==
    FAdd(FAdd(FSquare(a), FSquare(b)), FMul(FMul(a, b), constant))

Verified(c) == circuit = c /\ phase = "verified"

---------------------------------------------------------------------------
(* Properties *)

\* C1: for all field values a and b, the SquareSumCircuit grid verified
\* against the public input a^2 + b^2 passes every gate, copy-constraint and
\* instance check.
C1_SquareSumVerifies ==
    (Verified("SquareSum") /\ instance[0] = ExpectedSquareSum(inA, inB))
        => failures = {}

\* a = 3, b = 4 verified against 25
C1_Witness ==
    /\ Verified("SquareSum")
    /\ inA = 3 /\ inB = 4
    /\ instance[0] = FFrom(25)
    /\ failures = {}

\* C2: for all field values a and b, verifying the SquareSumCircuit grid
\* against a^2 + b^2 + 1 fails, and every failure reported is an
\* InstanceMismatch.
C2_WrongPublicInputIsInstanceMismatch ==
    (Verified("SquareSum") /\ instance[0] = FAdd(ExpectedSquareSum(inA, inB), 1))
        => /\ failures # {}
           /\ \A f \in failures : f.kind = "InstanceMismatch"

\* a = 3, b = 4 verified against 26: the one failure is the instance
\* mismatch of the result cell at instance row 0
C2_Witness ==
    /\ Verified("SquareSum")
    /\ inA = 3 /\ inB = 4
    /\ instance[0] = FFrom(26)
    /\ failures = {Failure("InstanceMismatch", "", 0, 0, {handles["result"]})}

\* C3: for all a, b and constant k, OptimizedCircuit verifies against a
\* public value p if and only if p = a^2 + b^2 + a*b*k.
C3_OptimizedVerifiesIffExpected ==
    Verified("Optimized")
        => (failures = {} <=> instance[0] = ExpectedOutput(inA, inB, inK))

\* a = 4, b = 5, k = 3 verified against 101
C3_Witness ==
    /\ Verified("Optimized")
    /\ inA = 4 /\ inB = 5 /\ inK = 3
    /\ instance[0] = FFrom(101)
    /\ failures = {}

\* C4: for all a, b and constant k, MultiChipCircuit verifies against a
\* public value p if and only if p = a^2 + b^2 + a*b*k.
C4_MultiChipVerifiesIffExpected ==
    Verified("MultiChip")
        => (failures = {} <=> instance[0] = ExpectedOutput(inA, inB, inK))

\* a = 4, b = 5, k = 3 verified against 102: rejected
C4_Witness ==
    /\ Verified("MultiChip")
    /\ inA = 4 /\ inB = 5 /\ inK = 3
    /\ instance[0] = FFrom(102)
    /\ failures # {}

\* The row of the decomposition region of the range circuits
DecompRow == handles["value_cell"][2]

\* C5: for every value v of the unsigned range, BitDecompositionCircuit
\* passes verification and the limb cell i of the decomposition row holds
\* (v >> (limb width * i)) & limb mask.
C5_ByteDecompositionVerifies ==
    Verified("BitDecomposition")
        => /\ failures = {}
           /\ \A i \in 0..(NumLimbs - 1) :
                 grid[Cell(BitDecompositionConfig.bytes[i], DecompRow)]
                     = (inV \div (LimbRange ^ i)) % LimbRange

\* the value with limbs (0, 1, 1, ..., 1) top down: all ones but the lowest
C5_Witness ==
    /\ Verified("BitDecomposition")
    /\ inV = U32Range - LimbRange
    /\ failures = {}
    /\ grid[Cell(BitDecompositionConfig.bytes[0], DecompRow)] = 0
    /\ grid[Cell(BitDecompositionConfig.bytes[NumLimbs - 1], DecompRow)] = LimbMask

\* The integer sum over the first n bit cells of bit_i * 2^i
RECURSIVE WeightedBitSum(_, _, _)
WeightedBitSum(g, row, n) ==
    IF n = 0 THEN 0
    ELSE WeightedBitSum(g, row, n - 1)
            + g[Cell(BinaryRangeConfig.bits[n - 1], row)] * Pow2(n - 1)

\* C6: for every value v of the unsigned range, the maximum included,
\* BinaryRangeCircuit passes verification and the weighted sum of its bit
\* cells equals v.
C6_BinaryDecompositionVerifies ==
    Verified("BinaryRange")
        => /\ failures = {}
           /\ WeightedBitSum(grid, DecompRow, NumBits) = inV

\* the maximum value: every bit cell holds 1
C6_Witness ==
    /\ Verified("BinaryRange")
    /\ inV = U32Range - 1
    /\ failures = {}
    /\ \A i \in 0..(NumBits - 1) :
          grid[Cell(BinaryRangeConfig.bits[i], DecompRow)] = 1

\* C7: in the binary range check, a bit cell of the row where s_binary is
\* enabled overwritten with a field value outside {0, 1} makes verification
\* report a GateViolation of the binary_constraint gate of that bit's
\* column at that row.
C7_TamperedBitIsGateViolation ==
    \A i \in 0..(NumBits - 1) :
        (/\ Verified("BinaryRange")
         /\ tampered = {Cell(BinaryRangeConfig.bits[i], DecompRow)}
         /\ grid[Cell(BinaryRangeConfig.bits[i], DecompRow)] \notin {0, 1}
         /\ <<BinaryRangeConfig.s_binary, DecompRow>> \in selectors)
            => Failure("GateViolation", "binary_constraint", i, DecompRow, {})
                   \in failures

\* the top bit of the maximum value overwritten with 2
C7_Witness ==
    /\ Verified("BinaryRange")
    /\ inV = U32Range - 1
    /\ tampered = {Cell(BinaryRangeConfig.bits[NumBits - 1], DecompRow)}
    /\ grid[Cell(BinaryRangeConfig.bits[NumBits - 1], DecompRow)] = 2
    /\ Failure("GateViolation", "binary_constraint", NumBits - 1, DecompRow, {})
           \in failures

\* The limb contents for which a byte lookup passes at row r
LookupPassing(S, tb, r) ==
    {y \in Field :
        byte_lookup_input(QuerySelector(S, BitDecompositionConfig.s_lookup, r), y)
            \in TableValues(tb)}

\* C8: soundness of the byte-lookup range check.  On a row with s_decomp and
\* s_lookup enabled, whatever the value cell and the four limb cells hold,
\* if the bit_decomposition gate and the four lookups pass then the value
\* cell holds an integer of the unsigned range.
C8_ByteLookupSound ==
    (circuit = "BitDecomposition" /\ phase = "synthesized") =>
        \A r \in Rows :
            (/\ <<BitDecompositionConfig.s_decomp, r>> \in selectors
             /\ <<BitDecompositionConfig.s_lookup, r>> \in selectors)
            => \A limbs \in [0..(NumLimbs - 1) -> LookupPassing(selectors, table, r)] :
                  \A x \in Field :
                      bit_decomposition_gate(
                          QuerySelector(selectors, BitDecompositionConfig.s_decomp, r),
                          x, limbs[0], limbs[1], limbs[2], limbs[3]) = 0
                      => x < U32Range

\* the synthesized row of the maximum value: both selectors enabled, the
\* gate and the four lookups pass
C8_Witness ==
    /\ circuit = "BitDecomposition" /\ phase = "synthesized"
    /\ inV = U32Range - 1
    /\ <<BitDecompositionConfig.s_decomp, DecompRow>> \in selectors
    /\ <<BitDecompositionConfig.s_lookup, DecompRow>> \in selectors
    /\ GateValue_BitDecomposition(0, grid, selectors, DecompRow) = 0
    /\ \A i \in Lookups(circuit) :
          LookupInput(circuit, i, grid, selectors, DecompRow) \in TableValues(table)
    /\ grid[handles["value_cell"]] = U32Range - 1

\* C9: once load_byte_table has run, row i of the table column holds i for
\* every i of the limb range and nothing else, so every limb value occurs
\* exactly once; the table is loaded once per build, and before any region
\* is assigned.
C9_ByteTableLoadedOnce ==
    circuit = "BitDecomposition" =>
        /\ tableLoads <= 1
        /\ (regions # <<>> => tableLoads = 1)
        /\ (pc >= 1 =>
               /\ tableLoads = 1
               /\ DOMAIN table = 0..(LimbRange - 1)
               /\ \A i \in DOMAIN table : table[i] = i
               /\ \A v \in 0..(LimbRange - 1) :
                     Cardinality({r \in DOMAIN table : table[r] = v}) = 1)

\* the table loaded and the decomposition region assigned after it
C9_Witness ==
    /\ circuit = "BitDecomposition" /\ phase = "synthesized"
    /\ tableLoads = 1
    /\ Len(regions) = 1
    /\ table[LimbRange - 1] = LimbRange - 1

\* The value-cell contents for which limb cells exist that satisfy the byte
\* strategy's gate and lookups at row r
ByteSatisfiable(S, tb, r) ==
    {x \in Field :
        \E limbs \in [0..(NumLimbs - 1) -> LookupPassing(S, tb, r)] :
            bit_decomposition_gate(
                QuerySelector(S, BitDecompositionConfig.s_decomp, r),
                x, limbs[0], limbs[1], limbs[2], limbs[3]) = 0}

\* The value-cell contents for which bit cells exist that satisfy the binary
\* strategy's gates on a row with s_binary and s_composition enabled
BinarySatisfiable ==
    {x \in Field :
        \E bits \in [0..(NumBits - 1) -> {y \in Field : binary_constraint_gate(1, y) = 0}] :
            composition_constraint_gate(1, x, bits) = 0}

\* C10: the two strategies accept the same value-cell contents, and for
\* every value v of the unsigned range each strategy's assign_and_decompose
\* returns a cell holding the embedding of v in a grid that verifies.
C10_StrategiesInterchangeable ==
    /\ (circuit = "BitDecomposition" /\ phase = "synthesized")
          => ByteSatisfiable(selectors, table, DecompRow) = BinarySatisfiable
    /\ (circuit \in RangeCircuits /\ phase \in {"synthesized", "verified"})
          => grid[handles["value_cell"]] = FFrom(inV)
    /\ (circuit \in RangeCircuits /\ phase = "verified") => failures = {}

\* the largest value of the unsigned range is accepted by both strategies
\* and the field element after it by neither
C10_Witness ==
    /\ circuit = "BitDecomposition" /\ phase = "synthesized"
    /\ (U32Range - 1) \in ByteSatisfiable(selectors, table, DecompRow)
    /\ (U32Range - 1) \in BinarySatisfiable
    /\ U32Range \in Field
    /\ U32Range \notin ByteSatisfiable(selectors, table, DecompRow)
    /\ U32Range \notin BinarySatisfiable


\* The copy_advice links of the add operations: each operand handle and the
\* cell of the add region it is copied into (SquareSumChip::add is the fifth
\* region of its circuit, AddChip::add_three the sixth of MultiChipCircuit)
AddOperandLinks ==
    CASE circuit = "SquareSum" ->
            {<<handles["a_squared"], Cell(SquareSumConfig.advice[0], regions[5].start)>>,
             <<handles["b_squared"], Cell(SquareSumConfig.advice[1], regions[5].start)>>}
      [] circuit = "MultiChip" ->
            {<<handles["a_squared"],
               Cell(MultiChipConfig.add_config.advice[0], regions[6].start)>>,
             <<handles["b_squared"],
               Cell(MultiChipConfig.add_config.advice[1], regions[6].start)>>,
             <<handles["ab_const"],
               Cell(MultiChipConfig.add_config.advice[2], regions[6].start)>>}
      [] OTHER -> {}

\* C12: copy-constraint integrity.  In every arithmetic circuit, when one
\* cell of a pair linked by copy_advice is overwritten after synthesis and
\* the other is not, verification reports a CopyMismatch naming the pair;
\* this covers the operand links of SquareSumChip::add and
\* AddChip::add_three.
C12_TamperedCopyIsCopyMismatch ==
    (circuit \in ArithCircuits /\ phase = "verified" /\ tampered # {}) =>
        \A pair \in copies \cup AddOperandLinks :
            ((pair[1] \in tampered) # (pair[2] \in tampered))
                => Failure("CopyMismatch", "", 0, 0, {pair[1], pair[2]}) \in failures

\* the a_squared cell of SquareSumCircuit overwritten: the mismatch with its
\* copy in the add region is reported
C12_Witness ==
    /\ Verified("SquareSum")
    /\ tampered = {handles["a_squared"]}
    /\ Failure("CopyMismatch", "", 0, 0,
               {handles["a_squared"],
                Cell(SquareSumConfig.advice[0], regions[5].start)}) \in failures


\* The columns and selectors synthesis has used so far
ColumnsUsed ==
    {c[1] : c \in DOMAIN grid} \cup {s[1] : s \in selectors}
        \cup {b[2][1] : b \in binds}
        \cup (IF tableLoads > 0 THEN {BitDecompositionConfig.byte_table} ELSE {})

MaxGateArg == 3

GateArgs == 0..MaxGateArg

\* The values a selector takes over the rows of the grid
SelectorValues(sel) == {QuerySelector(selectors, sel, r) : r \in Rows}

\* C14, SquareSumChip: each gate is zero where its selector is disabled and,
\* where it is enabled, non-zero exactly when a*a # a_squared, resp.
\* a + b # c.
GatesGuarded_SquareSum ==
    LET cfg == SquareSumConfig IN
    /\ \A s \in SelectorValues(cfg.s_square) : \A a, a_squared \in GateArgs :
          SquareSum_square_gate(s, a, a_squared) # 0
              <=> (s = 1 /\ FMul(a, a) # a_squared)
    /\ \A s \in SelectorValues(cfg.s_add) : \A a, b, c \in GateArgs :
          SquareSum_add_gate(s, a, b, c) # 0
              <=> (s = 1 /\ FAdd(a, b) # c)

\* C14, OptimizedFieldChip
GatesGuarded_Optimized ==
    LET cfg == OptimizedFieldConfig IN
    /\ \A s \in SelectorValues(cfg.s_add) : \A a0, a1, a2, sum \in GateArgs :
          Optimized_add_gate(s, a0, a1, a2, sum) # 0
              <=> (s = 1 /\ FAdd(FAdd(a0, a1), a2) # sum)
    /\ \A s \in SelectorValues(cfg.s_mul) : \A a0, a1, a2, const_val \in GateArgs :
          Optimized_mul_gate(s, a0, a1, a2, const_val) # 0
              <=> (s = 1 /\ FMul(FMul(a0, a1), const_val) # a2)
    /\ \A s \in SelectorValues(cfg.s_sq) : \A a0, a0_sq \in GateArgs :
          Optimized_square_gate(s, a0, a0_sq) # 0
              <=> (s = 1 /\ FMul(a0, a0) # a0_sq)

\* C14, SquareChip, AddChip and MulChip
GatesGuarded_MultiChip ==
    LET cfg == MultiChipConfig IN
    /\ \A s \in SelectorValues(cfg.square_config.s_square) : \A input, output \in GateArgs :
          SquareChip_square_gate(s, input, output) # 0
              <=> (s = 1 /\ FMul(input, input) # output)
    /\ \A s \in SelectorValues(cfg.add_config.s_add) : \A a, b, c, sum \in GateArgs :
          AddChip_add_three_gate(s, a, b, c, sum) # 0
              <=> (s = 1 /\ FAdd(FAdd(a, b), c) # sum)
    /\ \A s \in SelectorValues(cfg.mul_config.s_mul) : \A a, b, product, constant \in GateArgs :
          MulChip_mul_with_constant_gate(s, a, b, product, constant) # 0
              <=> (s = 1 /\ FMul(FMul(a, b), constant) # product)

\* C14, the range chips; the composition gate is evaluated over bit
\* contents 0 and 1
GatesGuarded_Range ==
    /\ circuit = "BitDecomposition" =>
          \A s \in SelectorValues(BitDecompositionConfig.s_decomp) :
             \A value, byte0, byte1, byte2, byte3 \in GateArgs :
                bit_decomposition_gate(s, value, byte0, byte1, byte2, byte3) # 0
                    <=> (s = 1 /\ value # bit_decomposition_sum(byte0, byte1, byte2, byte3))
    /\ circuit = "BinaryRange" =>
          /\ \A s \in SelectorValues(BinaryRangeConfig.s_binary) : \A bit \in GateArgs :
                binary_constraint_gate(s, bit) # 0 <=> (s = 1 /\ bit \notin {0, 1})
          /\ \A s \in SelectorValues(BinaryRangeConfig.s_composition) :
                \A value \in GateArgs : \A bits \in [0..(NumBits - 1) -> {0, 1}] :
                   composition_constraint_gate(s, value, bits) # 0
                       <=> (s = 1 /\ value # composition(bits, NumBits))

\* C14: every gate of the chips is multiplied by its own selector.  On the
\* rows of a synthesized grid where the selector is disabled the gate is
\* zero whatever its cells hold; where it is enabled the gate is non-zero
\* exactly when its polynomial is.
C14_GatesGuardedBySelector ==
    phase = "synthesized" =>
        CASE circuit = "SquareSum" -> GatesGuarded_SquareSum
          [] circuit = "Optimized" -> GatesGuarded_Optimized
          [] circuit = "MultiChip" -> GatesGuarded_MultiChip
          [] OTHER -> GatesGuarded_Range

\* the synthesized OptimizedCircuit: s_add is enabled on one row and
\* disabled on the others; on a disabled row the add gate is zero on cells
\* that do not add up, on the enabled row it is not
C14_Witness ==
    /\ circuit = "Optimized" /\ phase = "synthesized"
    /\ SelectorValues(OptimizedFieldConfig.s_add) = {0, 1}
    /\ Optimized_add_gate(0, 1, 1, 1, 0) = 0
    /\ Optimized_add_gate(1, 1, 1, 1, 0) # 0
    /\ Optimized_add_gate(1, 1, 1, 1, 3) = 0


\* byte0 + byte1*256 + byte2*256^2 + byte3*256^3 reduced into the field
LimbWeightedSum(byte0, byte1, byte2, byte3) ==
    (byte0 + byte1 * LimbRange + byte2 * (LimbRange ^ 2) + byte3 * (LimbRange ^ 3)) % P

\* C15: BitDecompositionConfig registers one gate, bit_decomposition.  On
\* the row of a synthesized grid where s_decomp is enabled it holds exactly
\* when value = byte0 + byte1*256 + byte2*256^2 + byte3*256^3 in the field,
\* and on every other row s_decomp is disabled and it holds whatever the
\* cells contain.  The value cell ranges over the weighted sum plus an
\* offset.
C15_BitDecompositionGate ==
    (circuit = "BitDecomposition" /\ phase = "synthesized") =>
        /\ cs.gates = <<"bit_decomposition">>
        /\ \A r \in Rows :
              <<BitDecompositionConfig.s_decomp, r>> \in selectors <=> r = DecompRow
        /\ \A r \in {DecompRow, (DecompRow + 1) % NumRows} :
              \A byte0, byte1, byte2, byte3, d \in GateArgs :
                 LET value == FAdd(LimbWeightedSum(byte0, byte1, byte2, byte3), d)
                     s_decomp == QuerySelector(selectors, BitDecompositionConfig.s_decomp, r)
                 IN  bit_decomposition_gate(s_decomp, value, byte0, byte1, byte2, byte3) = 0
                        <=> (r # DecompRow \/ d = 0)

\* the synthesized decomposition of the maximum value: the gate holds on its
\* row, fails there for a value cell one too large, and holds for that
\* content on the row after it
C15_Witness ==
    /\ circuit = "BitDecomposition" /\ phase = "synthesized"
    /\ inV = U32Range - 1
    /\ GateValue_BitDecomposition(0, grid, selectors, DecompRow) = 0
    /\ bit_decomposition_gate(1, FFrom(U32Range), LimbMask, LimbMask, LimbMask, LimbMask) # 0
    /\ bit_decomposition_gate(
           QuerySelector(selectors, BitDecompositionConfig.s_decomp, DecompRow + 1),
           FFrom(U32Range), LimbMask, LimbMask, LimbMask, LimbMask) = 0


\* The absolute rows region i occupies in each of its columns
RegionRows(i) == regions[i].start..(regions[i].start + regions[i].rows - 1)

\* The advice column the loads and the squares of OptimizedCircuit and
\* MultiChipCircuit share
SharedInputColumn ==
    IF circuit = "Optimized" THEN OptimizedFieldConfig.advice[0]
    ELSE MultiChipConfig.square_config.advice[0]

CopiesAfter(c, n) ==
    CASE c = "SquareSum" -> <<0, 0, 0, 1, 2, 4>>[n + 1]
      [] c \in {"Optimized", "MultiChip"} -> <<0, 0, 0, 1, 2, 4, 7>>[n + 1]
      [] OTHER -> 0

\* C17: after every step of a synthesis run, every copy constraint recorded
\* links two assigned cells holding equal values, and every copy_advice call
\* made so far has recorded one: the square of SquareSumCircuit links its
\* operand to advice[0] of its row, add_three of OptimizedCircuit links its
\* three operands to advice[0..2] of its first row.
C17_CopiesLinkEqualCells ==
    /\ \A pair \in copies :
          /\ pair[1] \in DOMAIN grid /\ pair[2] \in DOMAIN grid
          /\ grid[pair[1]] = grid[pair[2]]
    /\ Cardinality(copies) = CopiesAfter(circuit, Len(regions))
    /\ (circuit = "SquareSum" /\ Len(regions) >= 3) =>
          <<handles["a"], Cell(SquareSumConfig.advice[0], regions[3].start)>> \in copies
    /\ (circuit = "Optimized" /\ Len(regions) >= 6) =>
          {<<handles["a_sq"], Cell(OptimizedFieldConfig.advice[0], regions[6].start)>>,
           <<handles["b_sq"], Cell(OptimizedFieldConfig.advice[1], regions[6].start)>>,
           <<handles["ab_const"], Cell(OptimizedFieldConfig.advice[2], regions[6].start)>>}
              \subseteq copies

\* OptimizedCircuit for a = 2, b = 3, k = 1 after add_three: the seven
\* copies are recorded and the copy of a^2 holds 4
C17_Witness ==
    /\ circuit = "Optimized" /\ Len(regions) = 6
    /\ inA = 2 /\ inB = 3 /\ inK = 1
    /\ Cardinality(copies) = 7
    /\ grid[Cell(OptimizedFieldConfig.advice[0], regions[6].start)] = 4
    /\ grid[handles["a_sq"]] = 4


\* The selectors enabled at a row
SelectorsAt(r) == {s[1] : s \in {x \in selectors : x[2] = r}}

\* C18: the design table of basic_middle.rs.  The synthesized witness of
\* OptimizedCircuit occupies rows 0 to 3: row 0 holds a in a0 with only s_sq
\* enabled, row 1 holds b in a0 with only s_sq enabled, row 2 holds a, b in
\* a0, a1 and the constant in the fixed column with only s_mul enabled, row
\* 3 holds a^2, b^2, a*b*const in a0, a1, a2 with only s_add enabled.
C18_LayoutAsDesignTable ==
    (circuit = "Optimized" /\ phase = "synthesized") =>
        LET cfg == OptimizedFieldConfig
            At(col, r) == Query(grid, col, r)
        IN  /\ {c[2] : c \in DOMAIN grid} = 0..3
            /\ At(cfg.advice[0], 0) = inA /\ SelectorsAt(0) = {cfg.s_sq}
            /\ At(cfg.advice[0], 1) = inB /\ SelectorsAt(1) = {cfg.s_sq}
            /\ At(cfg.advice[0], 2) = inA /\ At(cfg.advice[1], 2) = inB
            /\ At(cfg.constant, 2) = inK /\ SelectorsAt(2) = {cfg.s_mul}
            /\ At(cfg.advice[0], 3) = FSquare(inA) /\ At(cfg.advice[1], 3) = FSquare(inB)
            /\ At(cfg.advice[2], 3) = FMul(FMul(inA, inB), inK)
            /\ SelectorsAt(3) = {cfg.s_add}


\* The constant the "mul with constant" region (the fifth) put in the fixed
\* column
FixedConstant == Query(grid, OptimizedFieldConfig.constant, regions[5].start)

\* C19: soundness of OptimizedCircuit.  Whatever the prover assigned, if the
\* synthesized grid passes the instance binding, every copy constraint and
\* every gate against a public value, that value is x^2 + y^2 + x*y*k for
\* the contents x, y of the two load cells and k of the fixed cell.
C19_OptimizedSound ==
    (circuit = "Optimized" /\ phase = "synthesized") =>
        \A inst \in PublicInputs :
            (/\ InstanceFailures(grid, binds, inst) = {}
             /\ CopyFailures(grid, copies) = {}
             /\ GateFailures(circuit, grid, selectors) = {})
                => inst[0] = ExpectedOutput(grid[handles["a"]], grid[handles["b"]],
                                            FixedConstant)

\* a forged grid for a = b = k = 2: the squares are honest, the product
\* cell holds 0 instead of 8, the sum cell agrees with its row, and the
\* verifier rejects the grid against the sum
C19_Witness ==
    /\ circuit = "Optimized" /\ phase = "synthesized"
    /\ inA = 2 /\ inB = 2 /\ inK = 2
    /\ grid[handles["a_sq"]] = 4 /\ grid[handles["b_sq"]] = 4
    /\ grid[handles["ab_const"]] = 0
    /\ grid[handles["result"]] = FFrom(8)
    /\ VerifyAll(circuit, grid, selectors, copies, binds, table,
                 (0 :> grid[handles["result"]])) # {}


\* C20: on every row where a gate's selector is enabled, one region enabled
\* the selector there and assigned every cell the gate queries from that
\* row, the next-row queries of add_gate and square_gate included; so no
\* enabled gate reads an unassigned cell or another region's cell.
C20_EnabledGatesReadOwnRegion ==
    \A i \in DOMAIN GateNames(circuit) : \A r \in Rows :
        <<GateSelector(circuit, i), r>> \in selectors =>
            \E j \in 1..Len(regions) :
                /\ Cell(GateSelector(circuit, i), r) \in regions[j].cells
                /\ \A q \in GateQueries(circuit, i) :
                      /\ r + q[2] < NumRows
                      /\ Cell(q[1], r + q[2]) \in regions[j].cells
                      /\ Cell(q[1], r + q[2]) \in DOMAIN grid

\* the first square region of OptimizedCircuit: s_sq is enabled on its
\* first row and the square gate's next-row query reads the region's
\* second row
C20_Witness ==
    /\ circuit = "Optimized" /\ Len(regions) = 3
    /\ <<OptimizedFieldConfig.s_sq, regions[3].start>> \in selectors
    /\ regions[3].rows = 2
    /\ Cell(OptimizedFieldConfig.advice[0], regions[3].start + 1) \in regions[3].cells
    /\ Cell(OptimizedFieldConfig.advice[0], regions[3].start + 1) \in DOMAIN grid


\* The three selectors of OptimizedFieldConfig
OptimizedSelectors ==
    {OptimizedFieldConfig.s_add, OptimizedFieldConfig.s_mul, OptimizedFieldConfig.s_sq}

\* C21: in OptimizedCircuit, after any prefix of synthesis, at most one of
\* s_add, s_mul, s_sq is enabled on any absolute row, and no selector is
\* enabled on the second row of a "square" or "add three" region, the row
\* holding the operation's result.
C21_OneSelectorPerRow ==
    circuit = "Optimized" =>
        /\ \A r \in Rows :
              Cardinality(SelectorsAt(r) \cap OptimizedSelectors) <= 1
        /\ \A j \in 1..Len(regions) :
              regions[j].name \in {"square", "add three"} =>
                  /\ regions[j].rows = 2
                  /\ SelectorsAt(regions[j].start + 1) = {}

\* the whole of OptimizedCircuit synthesized: each of the three selectors is
\* enabled on some row, and the result row of the first "square" region
\* carries none
C21_Witness ==
    /\ circuit = "Optimized" /\ phase = "synthesized"
    /\ \A s \in OptimizedSelectors : \E r \in Rows : <<s, r>> \in selectors
    /\ regions[3].name = "square"
    /\ SelectorsAt(regions[3].start) = {OptimizedFieldConfig.s_sq}
    /\ SelectorsAt(regions[3].start + 1) = {}
    /\ regions[6].name = "add three"
    /\ SelectorsAt(regions[6].start) = {OptimizedFieldConfig.s_add}


\* The grid g with cell c holding x, assigned or not before
GridWith(g, c, x) ==
    [d \in (DOMAIN g) \cup {c} |-> IF d = c THEN x ELSE g[d]]

\* C22: once the byte table is loaded, on every row where s_lookup is
\* disabled each of the four byte lookups has input s_lookup * byte = 0
\* whatever the byte cell holds, 0 is in the byte table, and the verifier's
\* lookup check reports no miss on that row.
C22_LookupsPassOnDisabledRows ==
    (circuit = "BitDecomposition" /\ tableLoads > 0) =>
        \A r \in Rows :
            <<BitDecompositionConfig.s_lookup, r>> \notin selectors =>
                \A i \in Lookups(circuit) : \A y \in Field :
                    LET g == GridWith(grid, Cell(BitDecompositionConfig.bytes[i], r), y)
                    IN  /\ LookupInput(circuit, i, g, selectors, r) = 0
                        /\ 0 \in TableValues(table)
                        /\ Failure("LookupMiss", "lookup", i, r, {})
                               \notin LookupFailures(circuit, g, selectors, table)

\* the verified decomposition: the row after the decomposition has s_lookup
\* disabled, and a byte cell holding the first value outside the table
\* passes there while it misses on the decomposition's own row
C22_Witness ==
    /\ circuit = "BitDecomposition" /\ phase = "verified" /\ failures = {}
    /\ <<BitDecompositionConfig.s_lookup, DecompRow>> \in selectors
    /\ <<BitDecompositionConfig.s_lookup, DecompRow + 1>> \notin selectors
    /\ LimbRange \in Field /\ LimbRange \notin TableValues(table)
    /\ LookupInput(circuit, 0,
                   GridWith(grid, Cell(BitDecompositionConfig.bytes[0], DecompRow + 1),
                            LimbRange),
                   selectors, DecompRow + 1) = 0
    /\ LookupInput(circuit, 0,
                   GridWith(grid, Cell(BitDecompositionConfig.bytes[0], DecompRow),
                            LimbRange),
                   selectors, DecompRow) = LimbRange


\* The columns configure enables equality on
EqualityColumns == Configuration(circuit, EmptyConstraintSystem).cs.equality

\* C23: no copy constraint is ever recorded between columns without
\* equality enabled: a copy_advice on such a column ends the build with
\* Equality-Not-Enabled.  With the configuration of the circuit's own
\* configure, every column that is the source or the destination of a
\* copy_advice, or is bound by an instance constraint, has equality enabled,
\* and no synthesis run fails with Equality-Not-Enabled.
C23_EqualityEnabledWhereCopied ==
    /\ EqualityEnabled(cs, copies)
    /\ (error = "EqualityNotEnabled") <=> (phase = "failed")
    /\ phase = "failed" => cs.equality # EqualityColumns
    /\ (phase # "configuring" /\ cs.equality = EqualityColumns) =>
          /\ error # "EqualityNotEnabled"
          /\ \A p \in copies : p[1][1] \in EqualityColumns /\ p[2][1] \in EqualityColumns
          /\ \A b \in binds : b[1][1] \in EqualityColumns /\ b[2][1] \in EqualityColumns

\* MultiChipCircuit synthesized under its own configuration: copies between
\* the chips' columns and the instance binding are recorded, all on columns
\* with equality enabled
C23_Witness ==
    /\ circuit = "MultiChip" /\ phase = "synthesized" /\ error = "none"
    /\ cs.equality = EqualityColumns
    /\ \E p \in copies : p[1][1] # p[2][1]
    /\ \E b \in binds : b[2][1] = MultiChipConfig.instance
    /\ {p[1][1] : p \in copies} \cup {p[2][1] : p \in copies} \subseteq cs.equality

===========================================================================
